---- MODULE Spec2Model ----
(***************************************************************************)
(* Recovery of the sorted collections of the KVDK engine                   *)
(* (engine/sorted_collection/rebuilder.cpp).  The persistent memory is a   *)
(* function from offsets to DLRecords; the rebuilder's intake, header      *)
(* resolution, list-based and segment-based index rebuild and reclamation  *)
(* are actions over it.                                                    *)
(***************************************************************************)
EXTENDS Integers, Sequences, FiniteSets, TLC

\* ------------------------------------------------------------------ bounds
NElems == 2
NThreads == 2
kMaxHeight == 2
kRestoreSkiplistStride == 2
TsOld == 1
CheckpointAt == 2
TsNew == 3

kNullPMemOffset == 0

\* ------------------------------------------------------------------ layout
\* Offset 1: header of collection 1.  Offset 2: an older version of that
\* header, a duplicate header of collection 1, or the header of collection 2.
\* Offsets 3..2+NElems: the linked elements.  The next NElems offsets: the
\* old version of each element, when it has one.
FirstOffset(k) == k
HeaderRec == FirstOffset(1)
SecondRec == FirstOffset(2)
Elem(i) == 2 + i
OldOf(i) == 2 + NElems + i
NRec == 2 + 2 * NElems
Recs == 1..NRec
Threads == 0..(NThreads - 1)
Ids == {1, 2}
MainThread == CHOOSE t \in Threads : \A u \in Threads : t <= u

VARIABLES
  pmem,               \* offset -> DLRecord
  freed,              \* offsets handed back to the allocator
  double_freed,       \* an offset was handed back twice
  checkpoint_,        \* checkpoint timestamp, 0: no checkpoint
  segment_based_rebuild_,
  hash_configured,    \* index_with_hashtable of the decoded header configs
  phase,              \* "intake", "init", "index", "link", "clean", "done"
  scan_plan,          \* the order and the threads of the scan that feeds the intake
  header_values,      \* collection id -> what decoding its header value gives
  log_,               \* offsets of the batch-write sorted log not rolled back yet
  scanned,            \* records already handed to AddHeader / AddElement
  linked_headers_,    \* set of accepted headers (sorted by initRebuildLists)
  init_i,             \* loop index of initRebuildLists
  thread_cache,       \* thread -> [visited_skiplists, unlinked_records]
  recovery_segments_, \* start record -> [visited]
  nodes,              \* record -> [height, next]: the SkiplistNode of a record
  rebuild_skiplits_,  \* id -> skiplist, or NoList
  invalid_skiplists_, \* id -> skiplist, or NoList
  hash_table,         \* set of hash entries [key, type, ptr]
  worker,             \* thread -> state of the index worker it runs
  next_tid_,
  batch,              \* skiplists already scheduled (list rebuild, link phase)
  ret,                \* RebuildResult: [s, skiplists]
  hpmap,              \* VHashGroup: name -> [pointer, locked_by]
  vhb,                \* VHashGroup: the VHash builder, [made, live, recycled]
  call,               \* thread -> the VHashGroup call it is in
  hist                \* what recovery did, for stating the properties

vars == <<pmem, freed, double_freed, checkpoint_, segment_based_rebuild_,
          hash_configured, phase, scan_plan, header_values, log_, scanned, linked_headers_,
          init_i, thread_cache, recovery_segments_, nodes, rebuild_skiplits_,
          invalid_skiplists_, hash_table, worker, next_tid_, batch, ret,
          hpmap, vhb, call, hist>>

\* ------------------------------------------------------------------ records
EmptyRec == [type |-> "Empty", status |-> "Normal", ts |-> 0, id |-> 0,
             key |-> 0, prev |-> 0, next |-> 0, old |-> 0, expired |-> FALSE]

DLRecord(type, status, ts, id, key, prev, next, old, expired) ==
  [type |-> type, status |-> status, ts |-> ts, id |-> id, key |-> key,
   prev |-> prev, next |-> next, old |-> old, expired |-> expired]

FetchID(m, r) == m[r].id

\* The user key of a header is the collection name; an element's internal
\* key is the collection id followed by the user key.
Key(m, r) == IF m[r].type = "SortedRecord" THEN <<"name", m[r].id>>
             ELSE <<"elem", m[r].id, m[r].key>>

MatchType(m, r) == m[r].type \in {"SortedRecord", "SortedElem"}

recoverToCheckpoint == checkpoint_ > 0

\* ------------------------------------------------------- linkage utilities
CheckPrevLinkage(m, r) ==
  m[r].prev # kNullPMemOffset /\ m[m[r].prev].next = r

CheckNextLinkage(m, r) ==
  m[r].next # kNullPMemOffset /\ m[m[r].next].prev = r

CheckLinkage(m, r) == CheckPrevLinkage(m, r) /\ CheckNextLinkage(m, r)

\* CheckAndRepairLinkage: at most one torn side is repaired from the
\* neighbour; the result is whether both sides point back afterwards.
RepairLinkage(m, r) ==
  IF CheckPrevLinkage(m, r) /\ ~CheckNextLinkage(m, r) /\ m[r].next # 0
    THEN [m EXCEPT ![m[r].next].prev = r]
  ELSE IF CheckNextLinkage(m, r) /\ ~CheckPrevLinkage(m, r) /\ m[r].prev # 0
    THEN [m EXCEPT ![m[r].prev].next = r]
  ELSE m

CheckAndRepairLinkage(m, r) == CheckLinkage(RepairLinkage(m, r), r)

\* Skiplist::Remove: unlink r, its neighbours point to each other; r keeps
\* its own prev and next.  A record is on the list when its prev points back
\* to it: its own prev and next are then valid.
Remove(m, r) ==
  IF CheckPrevLinkage(m, r)
    THEN LET p == m[r].prev
             n == m[r].next
             m1 == [m EXCEPT ![n].prev = p]
         IN  [m1 EXCEPT ![p].next = n]
    ELSE m

\* Skiplist::Replace: new takes the place of old.  A record that is alone in
\* its list (a header pointing to itself) is replaced by a self-linked new
\* record and the old one's prev is pointed at the new one to break it.
Replace(m, old, new) ==
  IF CheckPrevLinkage(m, old)
    THEN IF m[old].prev = old
           THEN [m EXCEPT ![new].prev = new, ![new].next = new,
                          ![old].prev = new]
           ELSE LET p == m[old].prev
                    n == m[old].next
                    m1 == [m EXCEPT ![new].prev = p, ![new].next = n]
                    m2 == [m1 EXCEPT ![p].next = new]
                IN  [m2 EXCEPT ![n].prev = new]
    ELSE m

\* DLRecord::Destroy: the record is marked dead (its type becomes padding).
Destroy(m, r) == [m EXCEPT ![r].type = "Padding"]

\* DLRecord::Validate: the record holds data that was written completely.
Validate(m, r) == m[r].type \notin {"Empty", "Padding"}

PersistOldVersion(m, r, o) == [m EXCEPT ![r].old = o]

PersistPrevNT(m, r, o) == [m EXCEPT ![r].prev = o]

\* ------------------------------------------------- findCheckpointVersion
\* A walk that does not look at the collection id of the ancestors.
RECURSIVE CheckpointWalkAnyId(_, _, _, _)
CheckpointWalkAnyId(m, cp, id, curr) ==
  IF curr = kNullPMemOffset \/ m[curr].ts <= cp THEN curr
  ELSE CheckpointWalkAnyId(m, cp, id, m[curr].old)

\* The loop of findCheckpointVersion from curr on.
RECURSIVE CheckpointWalk(_, _, _, _)
CheckpointWalk(m, cp, id, curr) ==
  IF curr = kNullPMemOffset \/ m[curr].ts <= cp THEN curr
  ELSE LET o == m[curr].old
           c == IF o # kNullPMemOffset /\ FetchID(m, o) # id
                  THEN kNullPMemOffset ELSE o
       IN  CheckpointWalk(m, cp, id, c)

\* A lookup that takes the linked record whatever the checkpoint.
findLinkedVersionAt(m, cp, r) == r

findCheckpointVersionAt(m, cp, r) ==
  IF ~(cp > 0) THEN r ELSE CheckpointWalk(m, cp, FetchID(m, r), r)

findCheckpointVersion(m, r) == findCheckpointVersionAt(m, checkpoint_, r)

\* ------------------------------------------------------------ input media
\* What the header at offset 1 and the record at offset 2 are.
HeaderKinds == {"plain", "two", "new", "upd", "updOut", "updExp", "outd",
                "dup", "dupOld", "outdTwo"}
DupKinds == {"dup", "dupOld"}
\* What became of each element since the checkpoint.
ElemKinds == {"keep", "outd", "new", "upd", "updOut"}

\* Number of elements of collection 1.
N1(hk) == IF hk \in DupKinds THEN 0
          ELSE IF hk = "two" THEN NElems - 1 ELSE NElems

List1(hk) == <<HeaderRec>> \o [i \in 1..N1(hk) |-> Elem(i)]
List2(hk) == IF hk = "two" THEN <<SecondRec, Elem(NElems)>>
             ELSE IF hk \in DupKinds \cup {"outdTwo"} THEN <<SecondRec>>
             ELSE <<>>

PosIn(seq, r) == CHOOSE j \in 1..Len(seq) : seq[j] = r
NextIn(seq, r) == seq[(PosIn(seq, r) % Len(seq)) + 1]
PrevIn(seq, r) == seq[((PosIn(seq, r) + Len(seq) - 2) % Len(seq)) + 1]

InSeq(seq, r) == \E j \in 1..Len(seq) : seq[j] = r

ListOf(hk, r) == IF InSeq(List1(hk), r) THEN List1(hk) ELSE List2(hk)

ElemTs(k) == IF k \in {"keep", "outd"} THEN TsOld ELSE TsNew
ElemStatus(k) == IF k = "outd" THEN "Outdated" ELSE "Normal"
HasOld(k) == k \in {"upd", "updOut"}

InputHeader(hk) ==
  LET l == List1(hk) IN
  DLRecord("SortedRecord",
           IF hk \in {"outd", "outdTwo"} THEN "Outdated" ELSE "Normal",
           IF hk \in {"new", "upd", "updOut", "updExp"} THEN TsNew ELSE TsOld,
           1, 0, PrevIn(l, HeaderRec), NextIn(l, HeaderRec),
           IF hk \in {"upd", "updOut", "updExp"} THEN SecondRec
           ELSE kNullPMemOffset,
           FALSE)

InputSecond(hk) ==
  IF hk \in {"upd", "updOut", "updExp"} THEN
    \* the header that the header at offset 1 replaced
    DLRecord("SortedRecord", IF hk = "updOut" THEN "Outdated" ELSE "Normal",
             TsOld, 1, 0, PrevIn(List1(hk), HeaderRec),
             NextIn(List1(hk), HeaderRec), kNullPMemOffset, hk = "updExp")
  ELSE IF hk \in DupKinds THEN
    \* a newer self-linked header of collection 1
    DLRecord("SortedRecord", "Normal", TsNew, 1, 0, SecondRec, SecondRec,
             IF hk = "dupOld" THEN HeaderRec ELSE kNullPMemOffset, FALSE)
  ELSE IF hk = "outdTwo" THEN
    \* the self-linked header of collection 2, beside an Outdated collection 1
    DLRecord("SortedRecord", "Normal", TsOld, 2, 0, SecondRec, SecondRec,
             kNullPMemOffset, FALSE)
  ELSE IF hk = "two" THEN
    DLRecord("SortedRecord", "Normal", TsOld, 2, 0,
             PrevIn(List2(hk), SecondRec), NextIn(List2(hk), SecondRec),
             kNullPMemOffset, FALSE)
  ELSE EmptyRec

ElemOwner(hk, i) == IF hk = "two" /\ i = NElems THEN 2 ELSE 1
ElemExists(hk, i) == ~(hk \in DupKinds)

InputElem(hk, ek, i) ==
  IF ~ElemExists(hk, i) THEN EmptyRec
  ELSE LET l == ListOf(hk, Elem(i)) IN
       DLRecord("SortedElem", ElemStatus(ek[i]), ElemTs(ek[i]),
                ElemOwner(hk, i), i, PrevIn(l, Elem(i)), NextIn(l, Elem(i)),
                IF HasOld(ek[i]) THEN OldOf(i) ELSE kNullPMemOffset, FALSE)

\* The record an update replaced keeps the prev and next it had.
InputOld(hk, ek, i) ==
  IF ~ElemExists(hk, i) \/ ~HasOld(ek[i]) THEN EmptyRec
  ELSE LET l == ListOf(hk, Elem(i)) IN
       DLRecord("SortedElem",
                IF ek[i] = "updOut" THEN "Outdated" ELSE "Normal", TsOld,
                ElemOwner(hk, i), i, PrevIn(l, Elem(i)), NextIn(l, Elem(i)),
                kNullPMemOffset, FALSE)

InputMedia(hk, ek) ==
  [r \in Recs |->
     IF r = HeaderRec THEN InputHeader(hk)
     ELSE IF r = SecondRec THEN InputSecond(hk)
     ELSE IF r <= 2 + NElems THEN InputElem(hk, ek, r - 2)
     ELSE InputOld(hk, ek, r - 2 - NElems)]

\* The write of r stopped half way: r's prev points to it, r's next still
\* points back to the record r was to follow or to replace.
TornMedia(m, r) ==
  [m EXCEPT ![m[r].next].prev =
     IF m[r].old # kNullPMemOffset THEN m[r].old ELSE m[r].prev]

\* What decoding the value of a collection's headers gives.
HeaderValueKinds == {"ok", "undecodable", "unregistered"}

\* The keys an entry may be found under before recovery; <<>>: none.
PreKeys == {<<"name", 1>>} \cup {<<"elem", c, k>> : c \in Ids, k \in 1..NElems}

\* Inputs: every element history under a plain header or two collections,
\* and every header history over unchanged elements.
InputOK(hk, ek) ==
  hk \in {"plain", "two"} \/ \A i \in 1..NElems : ek[i] = "keep"

\* The scan that hands the records to the intake: by ascending or descending
\* offset, by one thread or by the threads in turn.
ScanPlans == {[desc |-> FALSE, alt |-> FALSE], [desc |-> TRUE, alt |-> FALSE],
              [desc |-> FALSE, alt |-> TRUE]}

\* The list-based rebuild does not sample segment starts: one plan is enough.
\* Collections without hash index are rebuilt in segments under one plan.
PlanOK(seg, hf, plan) ==
  /\ seg \/ plan = [desc |-> FALSE, alt |-> TRUE]
  /\ ~seg \/ hf \/ plan = [desc |-> FALSE, alt |-> FALSE]

\* A log entry, a header value that fails to decode and an entry left in
\* the hash index are each tried alone, over unchanged elements (the logged
\* element apart; with an entry left under an element key, over unchanged
\* and updated elements).
ExtrasOK(hk, ek, cp, seg, hf, plan, lg, torn, hv, pre) ==
  LET base == /\ hf
              /\ plan = IF seg THEN [desc |-> FALSE, alt |-> FALSE]
                               ELSE [desc |-> FALSE, alt |-> TRUE]
      kept(S) == \A i \in 1..NElems : i \in S \/ ek[i] = "keep"
  IN
  /\ Cardinality({x \in {1, 2, 3} :
                    \/ x = 1 /\ lg # 0
                    \/ x = 2 /\ \E c \in Ids : hv[c] # "ok"
                    \/ x = 3 /\ pre # <<>>}) <= 1
  /\ torn => \E i \in 1..NElems : lg = Elem(i)
  /\ lg # 0 =>
       /\ base /\ hk = "plain"
       /\ \/ \E i \in 1..NElems : lg = Elem(i) /\ kept({i})
          \/ lg = OldOf(1) /\ kept({1}) /\ ek[1] \in {"keep", "upd"}
  /\ (\E c \in Ids : hv[c] # "ok") =>
       /\ base /\ cp = 0 /\ kept({})
       /\ hk \in {"plain", "two"}
       /\ Cardinality({c \in Ids : hv[c] # "ok"}) = 1
       /\ hk = "plain" => hv[1] # "ok"
  /\ pre # <<>> =>
       /\ base /\ cp = 0
       /\ \A i \in 1..NElems : ek[i] \in {"keep", "upd"}
       /\ pre[1] = "name" => kept({})
       /\ hk \in {"plain", "two"}
       /\ \E r \in Recs : Key(InputMedia(hk, ek), r) = pre
                           /\ MatchType(InputMedia(hk, ek), r)

\* ------------------------------------------------------------------ state
NoList == [header |-> 0, id |-> 0, index_with_hashtable |-> FALSE, size |-> 0]
NoNode == [height |-> 0, next |-> [l \in 1..kMaxHeight |-> 0]]
IdleWorker == [pc |-> "idle", it |-> 0, owner |-> 0, start |-> 0,
               cur_record |-> 0, cur_node |-> 0, num_elems |-> 0,
               prevs |-> [l \in 1..kMaxHeight |-> 0], tid |-> 0,
               s |-> "Ok"]

NoHandoff == [last |-> 0, boundary |-> 0, header |-> 0]

Skiplist(header, id, flag) ==
  [header |-> header, id |-> id, index_with_hashtable |-> flag, size |-> 0]

NewNode(h) == [height |-> h, next |-> [l \in 1..kMaxHeight |-> 0]]

\* The rebuilder as its constructor leaves it.
Constructed ==
  /\ freed = {}
  /\ double_freed = FALSE
  /\ scanned = {}
  /\ linked_headers_ = {}
  /\ init_i = 0
  /\ thread_cache = [t \in Threads |->
                       [visited_skiplists |-> [c \in Ids |-> 0],
                        unlinked_records |-> {}]]
  /\ recovery_segments_ = [r \in {} |-> FALSE]
  /\ nodes = [r \in Recs |-> NoNode]
  /\ rebuild_skiplits_ = [c \in Ids |-> NoList]
  /\ invalid_skiplists_ = [c \in Ids |-> NoList]
  /\ worker = [t \in Threads |-> IdleWorker]
  /\ next_tid_ = 0
  /\ batch = {}
  /\ ret = [s |-> "None", skiplists |-> {}]

\* ------------------------------------------------------------- VHashGroup
NNames == 2
MaxCalls == 2
Names == 1..NNames
nullptr == 0

\* A thread outside any call of the group.
IdleCall == [op |-> "none", name |-> 0, pc |-> "idle", seen |-> nullptr,
             vhash |-> nullptr, result |-> FALSE, left |-> nullptr,
             contended |-> FALSE, epoch |-> 0, n |-> 0]

\* The group as its constructor leaves it: no name registered, no VHash made.
VHashGroupConstructed ==
  /\ hpmap = [name \in Names |-> [pointer |-> nullptr, locked |-> FALSE]]
  /\ vhb = [made |-> 0, live |-> {}, recycled |-> {}]
  /\ call = [t \in Threads |-> IdleCall]

Init ==
  \E hk \in HeaderKinds, ek \in [1..NElems -> ElemKinds],
     cp \in {0, CheckpointAt}, seg \in BOOLEAN, hf \in BOOLEAN,
     plan \in ScanPlans, lg \in {0} \cup {Elem(i) : i \in 1..NElems} \cup {OldOf(1)},
     torn \in BOOLEAN, hv \in [Ids -> HeaderValueKinds],
     pre \in {<<>>} \cup PreKeys :
    /\ InputOK(hk, ek)
    /\ PlanOK(seg, hf, plan)
    /\ ExtrasOK(hk, ek, cp, seg, hf, plan, lg, torn, hv, pre)
    /\ scan_plan = plan
    /\ header_values = hv
    /\ log_ = IF lg = 0 THEN {} ELSE {lg}
    /\ pmem = IF torn THEN TornMedia(InputMedia(hk, ek), lg)
              ELSE InputMedia(hk, ek)
    /\ checkpoint_ = cp
    /\ segment_based_rebuild_ = seg
    /\ hash_configured = hf
    /\ phase = "intake"
    /\ Constructed
    /\ VHashGroupConstructed
    /\ hash_table = IF pre = <<>> THEN {}
                    ELSE {[key |-> pre, ptr |-> 0, type |-> "DLRecord"]}
    /\ hist = [pmem0 |-> pmem,
               purged |-> {}, queued |-> {},
               broken |-> {}, removed |-> {}, replaced |-> {},
               batch_freed |-> {}, destroyed_lists |-> {}, starts |-> {},
               invalid_headers |-> {},
               pmem_resolved |-> pmem,
               rolled |-> {},
               pmem_logged |-> pmem,
               hash0 |-> hash_table, attempted |-> {}, cleaned |-> FALSE,
               rejected |-> {},
               pmem_clean |-> pmem, unlinked_clean |-> {},
               claimed |-> [r \in Recs |-> 0],
               invoked |-> [r \in Recs |-> 0],
               processed |-> [r \in Recs |-> 0],
               interior |-> {},
               handoff |-> [r \in Recs |-> NoHandoff],
               level1 |-> [c \in Ids |-> <<>>]]

\* ---------------------------------------------------------------- rollback
\* A rollback that undoes only a write that was linked on both sides.
RollbackLinkedOnly(m, r) ==
  LET m1 == IF Validate(m, r) /\ CheckLinkage(m, r)
              THEN IF m[r].old # kNullPMemOffset
                     THEN Replace(m, r, m[r].old)
                     ELSE Remove(m, r)
              ELSE m
  IN  Destroy(m1, r)

\* The media after Rollback of the log entry of offset r.
RollbackMedia(m, r) ==
  LET m1 == IF Validate(m, r) /\ CheckPrevLinkage(m, r)
              THEN IF m[r].old # kNullPMemOffset
                     THEN Replace(m, r, m[r].old)
                     ELSE Remove(m, r)
              ELSE m
  IN  Destroy(m1, r)

\* Rollback is called for every entry of the log before the intake.
Rollback(r) ==
  /\ phase = "intake"
  /\ scanned = {}
  /\ r \in log_
  /\ pmem' = RollbackMedia(pmem, r)
  /\ log_' = log_ \ {r}
  /\ hist' = [hist EXCEPT !.pmem0 = pmem', !.pmem_resolved = pmem',
                          !.rolled = @ \cup {r}, !.pmem_logged = pmem]
  /\ UNCHANGED <<freed, double_freed, checkpoint_, hpmap, vhb, call, segment_based_rebuild_,
                 hash_configured, phase, scan_plan, header_values, scanned,
                 linked_headers_, init_i, thread_cache, recovery_segments_,
                 nodes, rebuild_skiplits_, invalid_skiplists_, hash_table,
                 worker, next_tid_, batch, ret>>

\* ------------------------------------------------------------------ intake
addUnlinkedRecord(tc, t, r) ==
  [tc EXCEPT ![t].unlinked_records = @ \cup {r}]

\* A rejection that purges whether or not a checkpoint is targeted.
RejectRecordPurge(r, t) ==
  /\ pmem' = Destroy(RepairLinkage(pmem, r), r)
  /\ freed' = freed \cup {r}
  /\ double_freed' = (double_freed \/ r \in freed)
  /\ hist' = [hist EXCEPT !.purged = @ \cup {r}, !.rejected = @ \cup {r}]
  /\ thread_cache' = thread_cache

\* PurgeAndFree of a record whose linkage cannot be repaired, or queue it.
RejectRecord(r, t) ==
  IF ~recoverToCheckpoint
    THEN /\ pmem' = Destroy(RepairLinkage(pmem, r), r)
         /\ freed' = freed \cup {r}
         /\ double_freed' = (double_freed \/ r \in freed)
         /\ hist' = [hist EXCEPT !.purged = @ \cup {r}, !.rejected = @ \cup {r}]
         /\ thread_cache' = thread_cache
    ELSE /\ pmem' = RepairLinkage(pmem, r)
         /\ thread_cache' = addUnlinkedRecord(thread_cache, t, r)
         /\ hist' = [hist EXCEPT !.queued = @ \cup {r}, !.rejected = @ \cup {r}]
         /\ UNCHANGED <<freed, double_freed>>

\* The record the scan hands over next, and the thread that does.
ToScan == {r \in Recs : r \notin scanned /\ MatchType(pmem, r)}

NextToScan(r) ==
  /\ r \in ToScan
  /\ \A q \in ToScan : IF scan_plan.desc THEN q <= r ELSE r <= q

ScanThread(r) == IF scan_plan.alt THEN r % NThreads ELSE MainThread

AddHeader(r, t) ==
  /\ phase = "intake"
  /\ log_ = {}
  /\ NextToScan(r)
  /\ t = ScanThread(r)
  /\ pmem[r].type = "SortedRecord"
  /\ scanned' = scanned \cup {r}
  /\ IF ~CheckAndRepairLinkage(pmem, r)
       THEN /\ RejectRecord(r, t)
            /\ UNCHANGED linked_headers_
       ELSE /\ pmem' = RepairLinkage(pmem, r)
            /\ linked_headers_' = linked_headers_ \cup {r}
            /\ UNCHANGED <<freed, double_freed, thread_cache, hist>>
  /\ UNCHANGED <<checkpoint_, hpmap, vhb, call, segment_based_rebuild_, hash_configured, phase,
                 scan_plan, header_values, log_, init_i, recovery_segments_, nodes, rebuild_skiplits_,
                 invalid_skiplists_, hash_table, worker, next_tid_, batch, ret>>

\* The Segment Planner's test on an accepted element, after the counter of
\* the calling thread was incremented to n.
NominatedAsSegment(m, r, n) ==
  /\ n % kRestoreSkiplistStride = 0
  /\ findCheckpointVersion(m, r) = r
  /\ m[r].type = "SortedElem"

AddElement(r, t) ==
  /\ phase = "intake"
  /\ log_ = {}
  /\ NextToScan(r)
  /\ t = ScanThread(r)
  /\ pmem[r].type = "SortedElem"
  /\ scanned' = scanned \cup {r}
  /\ IF ~CheckAndRepairLinkage(pmem, r)
       THEN /\ RejectRecord(r, t)
            /\ UNCHANGED <<recovery_segments_, nodes>>
       ELSE LET id == FetchID(pmem, r)
                n == thread_cache[t].visited_skiplists[id] + 1
            IN
            /\ pmem' = RepairLinkage(pmem, r)
            /\ UNCHANGED <<freed, double_freed>>
            /\ hist' = IF segment_based_rebuild_ /\ NominatedAsSegment(pmem', r, n)
                         THEN [hist EXCEPT !.starts = @ \cup {r}]
                         ELSE hist
            /\ IF ~segment_based_rebuild_
                 THEN UNCHANGED <<thread_cache, recovery_segments_, nodes>>
                 ELSE /\ thread_cache' =
                           [thread_cache EXCEPT ![t].visited_skiplists[id] = n]
                      /\ IF NominatedAsSegment(pmem', r, n)
                           THEN \E h \in 1..kMaxHeight :
                                  /\ nodes' = [nodes EXCEPT ![r] = NewNode(h)]
                                  /\ recovery_segments_' =
                                       IF r \in DOMAIN recovery_segments_
                                         THEN recovery_segments_
                                         ELSE (r :> FALSE) @@ recovery_segments_
                           ELSE UNCHANGED <<recovery_segments_, nodes>>
  /\ UNCHANGED <<checkpoint_, hpmap, vhb, call, segment_based_rebuild_, hash_configured, phase,
                 scan_plan, header_values, log_, linked_headers_, init_i, rebuild_skiplits_,
                 invalid_skiplists_, hash_table, worker, next_tid_, batch, ret>>

\* ------------------------------------------------------------- hash index
\* HashTable::Insert: the entry of the key is written; the result tells
\* whether the key already had one.
HashFound(ht, key) == \E e \in ht : e.key = key

\* An insert that records every pointer as a plain record.
HashInsertAsRecord(ht, key, ptr, type) ==
  {e \in ht : e.key # key} \cup {[key |-> key, ptr |-> ptr, type |-> "DLRecord"]}

HashInsert(ht, key, ptr, type) ==
  {e \in ht : e.key # key} \cup {[key |-> key, ptr |-> ptr, type |-> type]}

\* An insert that reports Ok whatever it found.
insertHashIndexUnchecked(ht, key) == "Ok"

\* insertHashIndex: Ok only when the slot was empty.
insertHashIndex(ht, key) == IF HashFound(ht, key) THEN "Abort" ELSE "Ok"

\* ------------------------------------------------------ header resolution
\* cmp of initRebuildLists: by collection id, then by timestamp.
HeaderLess(m, h1, h2) ==
  IF FetchID(m, h1) = FetchID(m, h2) THEN m[h1].ts < m[h2].ts
  ELSE FetchID(m, h1) < FetchID(m, h2)

SortedHeaders(m, hs) ==
  CHOOSE seq \in [1..Cardinality(hs) -> hs] :
    /\ \A i, j \in 1..Cardinality(hs) : i # j => seq[i] # seq[j]
    /\ \A i, j \in 1..Cardinality(hs) : i < j => ~HeaderLess(m, seq[j], seq[i])

Rebuild ==
  /\ phase = "intake"
  /\ log_ = {}
  /\ \A r \in Recs : MatchType(pmem, r) => r \in scanned
  /\ phase' = "init"
  /\ init_i' = 1
  /\ UNCHANGED <<pmem, freed, double_freed, checkpoint_, hpmap, vhb, call,
                 segment_based_rebuild_, hash_configured, scan_plan, header_values, log_, scanned,
                 linked_headers_, thread_cache, recovery_segments_, nodes,
                 rebuild_skiplits_, invalid_skiplists_, hash_table, worker,
                 next_tid_, batch, ret, hist>>

\* A break that rewrites the newer header instead of the older one.
BreakNewerHeader(h, newer) ==
  /\ pmem' = PersistPrevNT(pmem, newer, h)
  /\ thread_cache' = addUnlinkedRecord(thread_cache, MainThread, h)
  /\ hist' = [hist EXCEPT !.queued = @ \cup {h}, !.broken = @ \cup {h}]
  /\ init_i' = init_i + 1
  /\ UNCHANGED <<recovery_segments_, nodes, rebuild_skiplits_,
                 invalid_skiplists_, hash_table, ret, phase>>

\* A break that queues the older header without rewriting its prev.
QueueOutdatedHeader(h, newer) ==
  /\ thread_cache' = addUnlinkedRecord(thread_cache, MainThread, h)
  /\ hist' = [hist EXCEPT !.queued = @ \cup {h}, !.broken = @ \cup {h}]
  /\ init_i' = init_i + 1
  /\ UNCHANGED <<pmem, recovery_segments_, nodes, rebuild_skiplits_,
                 invalid_skiplists_, hash_table, ret, phase>>

\* A break that rewrites the older header without queueing it.
BreakUnqueuedHeader(h, newer) ==
  /\ pmem' = PersistPrevNT(pmem, h, newer)
  /\ hist' = [hist EXCEPT !.broken = @ \cup {h}]
  /\ init_i' = init_i + 1
  /\ UNCHANGED <<thread_cache, recovery_segments_, nodes, rebuild_skiplits_,
                 invalid_skiplists_, hash_table, ret, phase>>

\* An older header of an id that has a newer one: break it in place.
BreakOutdatedHeader(h, newer) ==
  /\ pmem' = PersistPrevNT(pmem, h, newer)
  /\ thread_cache' = addUnlinkedRecord(thread_cache, MainThread, h)
  /\ hist' = [hist EXCEPT !.queued = @ \cup {h}, !.broken = @ \cup {h}]
  /\ init_i' = init_i + 1
  /\ UNCHANGED <<recovery_segments_, nodes, rebuild_skiplits_,
                 invalid_skiplists_, hash_table, ret, phase>>

\* Skiplist::DecodeSortedCollectionValue on the value of a header of id.
DecodeSortedCollectionValue(id) ==
  IF header_values[id] = "undecodable" THEN "Abort" ELSE "Ok"

\* ComparatorTable::GetComparator: whether the decoded name is registered.
GetComparator(id) == header_values[id] # "unregistered"

\* The status initRebuildLists returns before it classifies the header.
HeaderStatus(id) ==
  IF DecodeSortedCollectionValue(id) # "Ok" THEN DecodeSortedCollectionValue(id)
  ELSE IF ~GetComparator(id) THEN "Abort"
  ELSE "Ok"

\* A test that forgets the expiry of the header.
HeaderDeleted(m, v) == m[v].status = "Outdated"

\* The visible version of a header is Outdated or has expired.
HeaderOutdated(m, v) == m[v].status = "Outdated" \/ m[v].expired

\* A resolution that keeps no skiplist for an invalid collection.
InvalidSkiplistDropped(h, id) == NoList

\* The skiplist of a collection that is not to be restored: no hash index
\* is built for it.
InvalidSkiplist(h, id) == Skiplist(h, id, FALSE)

\* The surviving header of an id: classify the collection.
ResolveHeader(h) ==
  LET id == FetchID(pmem, h)
      v == findCheckpointVersion(pmem, h)
  IN
  IF HeaderStatus(id) # "Ok" THEN
    /\ ret' = [ret EXCEPT !.s = HeaderStatus(id)]
    /\ phase' = "done"
    /\ UNCHANGED <<pmem, thread_cache, recovery_segments_, nodes,
                   rebuild_skiplits_, invalid_skiplists_, hash_table, init_i,
                   hist>>
  ELSE IF v = kNullPMemOffset \/ FetchID(pmem, v) # id THEN
    /\ invalid_skiplists_' =
         [invalid_skiplists_ EXCEPT ![id] = InvalidSkiplist(h, id)]
    /\ nodes' = [nodes EXCEPT ![h] = NewNode(kMaxHeight)]
    /\ init_i' = init_i + 1
    /\ hist' = [hist EXCEPT !.invalid_headers = @ \cup {h}]
    /\ UNCHANGED <<pmem, thread_cache, recovery_segments_,
                   rebuild_skiplits_, hash_table, ret, phase>>
  ELSE
    LET m1 == IF v # h THEN Replace(pmem, h, v) ELSE pmem
        tc1 == IF v # h THEN addUnlinkedRecord(thread_cache, MainThread, h)
               ELSE thread_cache
        outdated == HeaderOutdated(m1, v)
        name == Key(m1, v)
        s == insertHashIndex(hash_table, name)
    IN
    /\ thread_cache' = tc1
    /\ hist' = [hist EXCEPT
                  !.queued = IF v # h THEN @ \cup {h} ELSE @,
                  !.replaced = IF v # h THEN @ \cup {h} ELSE @,
                  !.invalid_headers = IF outdated THEN @ \cup {v} ELSE @,
                  !.attempted = IF outdated THEN @ ELSE @ \cup {name}]
    /\ nodes' = [nodes EXCEPT ![v] = NewNode(kMaxHeight)]
    /\ IF outdated THEN
         /\ pmem' = m1
         /\ invalid_skiplists_' =
              [invalid_skiplists_ EXCEPT ![id] = InvalidSkiplist(v, id)]
         /\ init_i' = init_i + 1
         /\ UNCHANGED <<recovery_segments_, rebuild_skiplits_, hash_table,
                        ret, phase>>
       ELSE
         /\ rebuild_skiplits_' =
              [rebuild_skiplits_ EXCEPT
                 ![id] = Skiplist(v, id, hash_configured)]
         /\ recovery_segments_' =
              IF segment_based_rebuild_ /\ v \notin DOMAIN recovery_segments_
                THEN (v :> FALSE) @@ recovery_segments_
                ELSE recovery_segments_
         /\ pmem' = PersistOldVersion(m1, v, kNullPMemOffset)
         /\ hash_table' = HashInsert(hash_table, name, id, "Skiplist")
         /\ IF s = "Ok"
              THEN /\ init_i' = init_i + 1
                   /\ UNCHANGED <<ret, phase>>
              ELSE /\ ret' = [ret EXCEPT !.s = s]
                   /\ phase' = "done"
                   /\ UNCHANGED init_i
         /\ UNCHANGED invalid_skiplists_

\* One iteration of the loop of initRebuildLists.
initRebuildLists ==
  /\ phase = "init"
  /\ init_i <= Cardinality(linked_headers_)
  /\ LET hs == SortedHeaders(pmem, linked_headers_)
         h == hs[init_i]
     IN  IF init_i + 1 <= Len(hs) /\ FetchID(pmem, h) = FetchID(pmem, hs[init_i + 1])
           THEN BreakOutdatedHeader(h, hs[init_i + 1])
           ELSE ResolveHeader(h)
  /\ UNCHANGED <<freed, double_freed, checkpoint_, hpmap, vhb, call, segment_based_rebuild_,
                 hash_configured, scan_plan, header_values, log_, scanned, linked_headers_, worker, next_tid_,
                 batch>>

RebuildIds == {c \in Ids : rebuild_skiplits_[c] # NoList}
InvalidIds == {c \in Ids : invalid_skiplists_[c] # NoList}

\* initRebuildLists returns Ok: Rebuild goes on to the index rebuild, or
\* straight to the end when there is nothing to rebuild.
initRebuildListsDone ==
  /\ phase = "init"
  /\ init_i > Cardinality(linked_headers_)
  /\ linked_headers_' = {}
  /\ init_i' = 0
  /\ phase' = IF RebuildIds # {} THEN "index" ELSE "clean"
  /\ hist' = [hist EXCEPT !.pmem_resolved = pmem]
  /\ UNCHANGED <<pmem, freed, double_freed, checkpoint_, hpmap, vhb, call,
                 segment_based_rebuild_, hash_configured, scan_plan, header_values, log_, scanned,
                 thread_cache, recovery_segments_, nodes, rebuild_skiplits_,
                 invalid_skiplists_, hash_table, worker, next_tid_, batch,
                 ret>>

\* ------------------------------------------------- an element of a walk
\* A walk that clears old_version whatever the hash insert returned.
SeverVersionAlways(m, v, s) == PersistOldVersion(m, v, kNullPMemOffset)

\* The walks return a failing status of the hash insert before they reach
\* PersistOldVersion(kNullPMemOffset).
SeverVersion(m, v, s) ==
  IF s = "Ok" THEN PersistOldVersion(m, v, kNullPMemOffset) ELSE m

\* The record to keep for list position r: its checkpoint version, or none
\* when there is none or it is Outdated.
KeptVersion(m, r) ==
  LET v == findCheckpointVersion(m, r) IN
  IF v = kNullPMemOffset \/ m[v].status = "Outdated" THEN kNullPMemOffset
  ELSE v

\* What both walks do with the record r that follows the current one.  h is
\* the height NewNodeBuild gives the node, 0 when it builds none.  The result
\* is the media, thread caches, hash index and history after the step, the
\* record kept (or none) and the status of the hash insert.
ElemStep(m, tc, ht, hs, r, tid, h, build_hash_index) ==
  LET v == KeptVersion(m, r)
      q == tid % NThreads
  IN
  IF v = kNullPMemOffset THEN
    [v |-> v, s |-> "Ok", m |-> Remove(m, r),
     tc |-> addUnlinkedRecord(tc, q, r), ht |-> ht,
     hs |-> [hs EXCEPT !.queued = @ \cup {r}, !.removed = @ \cup {r}]]
  ELSE
    LET m1 == IF v # r THEN Replace(m, r, v) ELSE m
        internal_key == Key(m, r)
        s == IF build_hash_index THEN insertHashIndex(ht, internal_key)
             ELSE "Ok"
    IN
    [v |-> v, s |-> s,
     m |-> SeverVersion(m1, v, s),
     tc |-> IF v # r THEN addUnlinkedRecord(tc, q, r) ELSE tc,
     ht |-> IF build_hash_index
              THEN HashInsert(ht, internal_key, v,
                              IF h > 0 THEN "SkiplistNode" ELSE "DLRecord")
              ELSE ht,
     hs |-> LET h1 == IF build_hash_index
                        THEN [hs EXCEPT !.attempted = @ \cup {internal_key}]
                        ELSE hs
            IN  IF v # r
                  THEN [h1 EXCEPT !.queued = @ \cup {r},
                                  !.replaced = @ \cup {r}]
                  ELSE h1]

\* NewNodeBuild on an interior element: any height, or no node.
NodeHeights(m, r) ==
  IF KeptVersion(m, r) = kNullPMemOffset THEN {0} ELSE 0..kMaxHeight

\* The list walk's splice: a new node of height h for v is linked after
\* prevs[i] on every level i <= h.
SpliceNode(nd, prevs, v, h) ==
  [r \in Recs |->
     IF r = v THEN NewNode(h)
     ELSE [nd[r] EXCEPT !.next =
             [l \in 1..kMaxHeight |->
                IF l <= h /\ prevs[l] = r THEN v ELSE nd[r].next[l]]]]

UpdateSize(sls, c, n) == [sls EXCEPT ![c].size = @ + n]

Rank(c) == Cardinality({d \in RebuildIds : d <= c})

\* ------------------------------------------------------- list-based rebuild
\* listBasedIndexRebuild: the next num_rebuild_threads_ skiplists get a task.
listBasedIndexRebuild ==
  /\ phase = "index"
  /\ ~segment_based_rebuild_
  /\ \A t \in Threads : worker[t].pc = "idle"
  /\ RebuildIds \ batch # {}
  /\ LET todo == {c \in RebuildIds \ batch :
                    Rank(c) <= Cardinality(batch) + NThreads}
         task(t) == {c \in todo : Rank(c) = Cardinality(batch) + t + 1}
     IN  worker' = [t \in Threads |->
                      IF task(t) = {} THEN IdleWorker
                      ELSE [IdleWorker EXCEPT !.pc = "begin",
                                              !.owner = CHOOSE c \in task(t) : TRUE]]
  /\ UNCHANGED <<pmem, freed, double_freed, checkpoint_, hpmap, vhb, call,
                 segment_based_rebuild_, hash_configured, phase, scan_plan, header_values, log_, scanned,
                 linked_headers_, init_i, thread_cache, recovery_segments_,
                 nodes, rebuild_skiplits_, invalid_skiplists_, hash_table,
                 next_tid_, batch, ret, hist>>

\* rebuildSkiplistIndex: the entry of the task, then one iteration of the
\* walk per step.
rebuildSkiplistIndex(t) ==
  /\ phase = "index"
  /\ ~segment_based_rebuild_
  /\ worker[t].pc \in {"begin", "walk"}
  /\ LET w == worker[t]
         sl == rebuild_skiplits_[w.owner]
         next_record == pmem[w.cur_record].next
     IN
     IF w.pc = "begin" THEN
       /\ worker' = [worker EXCEPT ![t] =
                       [w EXCEPT !.pc = "walk", !.tid = next_tid_,
                                 !.num_elems = 0, !.cur_record = sl.header,
                                 !.prevs = [l \in 1..kMaxHeight |-> sl.header]]]
       /\ next_tid_' = next_tid_ + 1
       /\ UNCHANGED <<pmem, thread_cache, nodes, rebuild_skiplits_,
                      hash_table, hist>>
     ELSE IF next_record = sl.header THEN
       /\ rebuild_skiplits_' = UpdateSize(rebuild_skiplits_, w.owner, w.num_elems)
       /\ worker' = [worker EXCEPT ![t].pc = "done", ![t].s = "Ok"]
       /\ UNCHANGED <<pmem, thread_cache, nodes, hash_table, next_tid_, hist>>
     ELSE
       \E h \in NodeHeights(pmem, next_record) :
         LET e == ElemStep(pmem, thread_cache, hash_table, hist, next_record,
                           w.tid, h, sl.index_with_hashtable)
         IN
         /\ pmem' = e.m
         /\ thread_cache' = e.tc
         /\ hash_table' = e.ht
         /\ hist' = e.hs
         /\ nodes' = IF h > 0 THEN SpliceNode(nodes, w.prevs, e.v, h)
                     ELSE nodes
         /\ worker' =
              IF e.v = kNullPMemOffset THEN worker
              ELSE IF e.s # "Ok"
                THEN [worker EXCEPT ![t].pc = "done", ![t].s = e.s,
                                    ![t].num_elems = @ + 1]
              ELSE [worker EXCEPT
                      ![t].num_elems = @ + 1,
                      ![t].cur_record = e.v,
                      ![t].prevs = [l \in 1..kMaxHeight |->
                                      IF l <= h THEN e.v ELSE w.prevs[l]]]
         /\ UNCHANGED <<rebuild_skiplits_, next_tid_>>
  /\ UNCHANGED <<freed, double_freed, checkpoint_, hpmap, vhb, call, segment_based_rebuild_,
                 hash_configured, phase, scan_plan, header_values, log_, scanned, linked_headers_, init_i,
                 recovery_segments_, invalid_skiplists_, batch, ret>>

\* The statuses of the finished tasks, in the order their futures are read.
FirstFailure ==
  LET bad == {t \in Threads : worker[t].pc = "done" /\ worker[t].s # "Ok"} IN
  IF bad = {} THEN "Ok"
  ELSE worker[CHOOSE t \in bad : \A u \in bad : t <= u].s

\* listBasedIndexRebuild reads the futures of a batch.
listBasedJoin ==
  /\ phase = "index"
  /\ ~segment_based_rebuild_
  /\ \E t \in Threads : worker[t].pc # "idle"
  /\ \A t \in Threads : worker[t].pc \in {"idle", "done"}
  /\ LET owners == {worker[t].owner : t \in {u \in Threads : worker[u].pc = "done"}}
     IN
     /\ batch' = batch \cup owners
     /\ worker' = [t \in Threads |-> IdleWorker]
     /\ IF FirstFailure # "Ok"
          THEN /\ ret' = [ret EXCEPT !.s = FirstFailure]
               /\ phase' = "done"
          ELSE /\ ret' = ret
               /\ phase' = IF RebuildIds \subseteq batch' THEN "clean"
                           ELSE "index"
  /\ UNCHANGED <<pmem, freed, double_freed, checkpoint_, hpmap, vhb, call,
                 segment_based_rebuild_, hash_configured, scan_plan, header_values, log_, scanned,
                 linked_headers_, init_i, thread_cache, recovery_segments_,
                 nodes, rebuild_skiplits_, invalid_skiplists_, hash_table,
                 next_tid_, hist>>

\* ---------------------------------------------------- segment-based rebuild
\* The entries of recovery_segments_ in the order every worker iterates them.
RECURSIVE SetToSeq(_)
SetToSeq(S) ==
  IF S = {} THEN <<>>
  ELSE LET x == CHOOSE y \in S : \A z \in S : y <= z
       IN  <<x>> \o SetToSeq(S \ {x})

SegSeq == SetToSeq(DOMAIN recovery_segments_)

SetNext(nd, n, level, to) == [nd EXCEPT ![n].next[level] = to]

\* segmentBasedIndexRebuild starts num_rebuild_threads_ segment workers.
segmentBasedIndexRebuild ==
  /\ phase = "index"
  /\ segment_based_rebuild_
  /\ \A t \in Threads : worker[t].pc = "idle"
  /\ worker' = [t \in Threads |-> [IdleWorker EXCEPT !.pc = "begin"]]
  /\ UNCHANGED <<pmem, freed, double_freed, checkpoint_, hpmap, vhb, call,
                 segment_based_rebuild_, hash_configured, phase, scan_plan, header_values, log_, scanned,
                 linked_headers_, init_i, thread_cache, recovery_segments_,
                 nodes, rebuild_skiplits_, invalid_skiplists_, hash_table,
                 next_tid_, batch, ret, hist>>

\* An iteration that stays at the entry it is at.
SameEntry(it) == it

\* The worker's iterator moves to the next entry of recovery_segments_.
NextEntry(it) == it + 1

\* A claim that does not test visited again under the lock.
ClaimsSegmentUntested(rs, s) == TRUE

\* The test under the lock: the worker claims segment s when nobody has.
ClaimsSegment(rs, s) == ~rs[s]

\* The lambda rebuild_segments_index: the worker's entry ("begin"), the test
\* of visited without the lock ("scan"), the claim under the lock ("lock").
rebuild_segments_index(t) ==
  /\ phase = "index"
  /\ segment_based_rebuild_
  /\ worker[t].pc \in {"begin", "scan", "lock"}
  /\ LET w == worker[t] IN
     IF w.pc = "begin" THEN
       /\ worker' = [worker EXCEPT ![t].pc = "scan", ![t].it = 1,
                                   ![t].tid = next_tid_]
       /\ next_tid_' = next_tid_ + 1
       /\ UNCHANGED <<recovery_segments_, hist>>
     ELSE IF w.it > Len(SegSeq) THEN
       /\ worker' = [worker EXCEPT ![t].pc = "done", ![t].s = "Ok"]
       /\ UNCHANGED <<recovery_segments_, next_tid_, hist>>
     ELSE IF w.pc = "scan" THEN
       /\ worker' = IF ~recovery_segments_[SegSeq[w.it]]
                      THEN [worker EXCEPT ![t].pc = "lock"]
                      ELSE [worker EXCEPT ![t].it = NextEntry(@)]
       /\ UNCHANGED <<recovery_segments_, next_tid_, hist>>
     ELSE
       IF ClaimsSegment(recovery_segments_, SegSeq[w.it])
         THEN /\ recovery_segments_' =
                   [recovery_segments_ EXCEPT ![SegSeq[w.it]] = TRUE]
              /\ worker' = [worker EXCEPT ![t].pc = "start",
                                          ![t].start = SegSeq[w.it]]
              /\ hist' = [hist EXCEPT !.claimed[SegSeq[w.it]] = @ + 1]
              /\ UNCHANGED next_tid_
         ELSE /\ worker' = [worker EXCEPT ![t].pc = "scan", ![t].it = NextEntry(@)]
              /\ UNCHANGED <<recovery_segments_, next_tid_, hist>>
  /\ UNCHANGED <<pmem, freed, double_freed, checkpoint_, hpmap, vhb, call,
                 segment_based_rebuild_, hash_configured, phase, scan_plan, header_values, log_, scanned,
                 linked_headers_, init_i, thread_cache, nodes,
                 rebuild_skiplits_, invalid_skiplists_, hash_table, batch,
                 ret>>

\* A boundary that never links to the neighbour's start node.
SegmentEndNull(m, next_record) == 0

\* The level-1 next of a segment's last node: the start node of the adjacent
\* segment, or null when that start is a header.
SegmentEndNext(m, next_record) ==
  IF m[next_record].type = "SortedElem" THEN next_record ELSE 0

\* A count that takes every start, the header too, for an element.
StartCountAny(start, header) == 1

\* The count a segment walk starts with: the start node unless it is the
\* header.
StartCount(start, header) == IF start # header THEN 1 ELSE 0

\* The end of a segment walk: the count is published and the worker goes on
\* to the next entry of recovery_segments_.
SegmentDone(t, nd) ==
  /\ nodes' = nd
  /\ rebuild_skiplits_' =
       UpdateSize(rebuild_skiplits_, worker[t].owner, worker[t].num_elems)
  /\ worker' = [worker EXCEPT ![t].pc = "scan", ![t].it = NextEntry(@)]
  /\ hist' = [hist EXCEPT !.handoff[worker[t].start] =
                [last |-> worker[t].cur_node,
                 boundary |-> pmem[worker[t].cur_record].next,
                 header |-> rebuild_skiplits_[worker[t].owner].header]]
  /\ UNCHANGED <<pmem, thread_cache, hash_table>>

\* A walk that takes no record for the start of another segment.
NeverSegmentStart(rs, next_record) == FALSE

\* The walk's lookup of the next record in recovery_segments_.
IsSegmentStart(rs, next_record) == next_record \in DOMAIN rs

\* rebuildSegmentIndex for the segment the worker claimed: what precedes the
\* walk ("start"), then one iteration of the walk per step ("walk").
rebuildSegmentIndex(t) ==
  /\ phase = "index"
  /\ segment_based_rebuild_
  /\ worker[t].pc \in {"start", "walk"}
  /\ LET w == worker[t]
         id == IF w.pc = "start" THEN FetchID(pmem, w.start) ELSE w.owner
         sl == rebuild_skiplits_[id]
         next_record == pmem[w.cur_record].next
     IN
     IF w.pc = "start" THEN
       IF sl = NoList THEN
         \* the start belongs to an invalid skiplist
         /\ worker' = [worker EXCEPT ![t].pc = "scan", ![t].it = NextEntry(@)]
         /\ UNCHANGED <<pmem, thread_cache, nodes, rebuild_skiplits_,
                        hash_table, hist>>
       ELSE
         LET elem == w.start # sl.header
             ins == elem /\ sl.index_with_hashtable
             s == IF ins THEN insertHashIndex(hash_table, Key(pmem, w.start))
                  ELSE "Ok"
         IN
         /\ hash_table' =
              IF ins THEN HashInsert(hash_table, Key(pmem, w.start), w.start,
                                     "SkiplistNode")
              ELSE hash_table
         /\ pmem' = SeverVersion(pmem, w.start, s)
         /\ worker' =
              IF s = "Ok"
                THEN [worker EXCEPT ![t].pc = "walk", ![t].owner = id,
                                    ![t].num_elems = StartCount(w.start, sl.header),
                                    ![t].cur_node = w.start,
                                    ![t].cur_record = w.start]
                ELSE [worker EXCEPT ![t].pc = "done", ![t].s = s]
         /\ hist' = [hist EXCEPT
                       !.attempted = IF ins THEN @ \cup {Key(pmem, w.start)}
                                     ELSE @,
                       !.invoked[w.start] = @ + 1,
                       !.processed[w.start] = IF elem THEN @ + 1 ELSE @]
         /\ UNCHANGED <<thread_cache, nodes, rebuild_skiplits_>>
     ELSE IF next_record = sl.header THEN
       SegmentDone(t, SetNext(nodes, w.cur_node, 1, 0))
     ELSE IF IsSegmentStart(recovery_segments_, next_record) THEN
       \* link the end node of this segment to the adjacent segment
       SegmentDone(t, SetNext(nodes, w.cur_node, 1,
                              SegmentEndNext(pmem, next_record)))
     ELSE
       \E h \in NodeHeights(pmem, next_record) :
         LET e == ElemStep(pmem, thread_cache, hash_table, hist, next_record,
                           w.tid, h, sl.index_with_hashtable)
         IN
         /\ pmem' = e.m
         /\ thread_cache' = e.tc
         /\ hash_table' = e.ht
         /\ hist' = [e.hs EXCEPT !.processed[next_record] = @ + 1,
                                 !.interior = @ \cup {next_record}]
         /\ nodes' = IF h > 0
                       THEN SetNext([nodes EXCEPT ![e.v] = NewNode(h)],
                                    w.cur_node, 1, e.v)
                       ELSE nodes
         /\ worker' =
              IF e.v = kNullPMemOffset THEN worker
              ELSE IF e.s # "Ok"
                THEN [worker EXCEPT ![t].pc = "done", ![t].s = e.s,
                                    ![t].num_elems = @ + 1]
              ELSE [worker EXCEPT
                      ![t].num_elems = @ + 1,
                      ![t].cur_record = e.v,
                      ![t].cur_node = IF h > 0 THEN e.v ELSE w.cur_node]
         /\ UNCHANGED rebuild_skiplits_
  /\ UNCHANGED <<freed, double_freed, checkpoint_, hpmap, vhb, call, segment_based_rebuild_,
                 hash_configured, phase, scan_plan, header_values, log_, scanned, linked_headers_, init_i,
                 recovery_segments_, invalid_skiplists_, next_tid_, batch, ret>>

\* A join that goes on as soon as one future is ready.
FuturesReadyAny(w) == \E t \in Threads : w[t].pc = "done"

\* Every future of the segment workers can be read.
FuturesReady(w) == \A t \in Threads : w[t].pc = "done"

\* segmentBasedIndexRebuild reads the futures of the segment workers.
segmentBasedJoin ==
  /\ phase = "index"
  /\ segment_based_rebuild_
  /\ FuturesReady(worker)
  /\ worker' = [t \in Threads |-> IdleWorker]
  /\ IF FirstFailure # "Ok"
       THEN /\ ret' = [ret EXCEPT !.s = FirstFailure]
            /\ phase' = "done"
       ELSE /\ ret' = ret
            /\ phase' = "link"
  /\ UNCHANGED <<pmem, freed, double_freed, checkpoint_, hpmap, vhb, call,
                 segment_based_rebuild_, hash_configured, scan_plan, header_values, log_, scanned,
                 linked_headers_, init_i, thread_cache, recovery_segments_,
                 nodes, rebuild_skiplits_, invalid_skiplists_, hash_table,
                 next_tid_, batch, hist>>

\* ------------------------------------------------------ high-level linkage
\* The walk of linkHighDramNodes from next_node on, with the splice prevs.
RECURSIVE LinkWalk(_, _, _)
LinkWalk(nd, prevs, next_node) ==
  IF next_node = 0 THEN
    [r \in Recs |->
       [nd[r] EXCEPT !.next =
          [l \in 1..kMaxHeight |-> IF prevs[l] = r THEN 0 ELSE nd[r].next[l]]]]
  ELSE
    LET h == nd[next_node].height
        nd1 == [r \in Recs |->
                  [nd[r] EXCEPT !.next =
                     [l \in 1..kMaxHeight |->
                        IF l >= 2 /\ l <= h /\ prevs[l] = r THEN next_node
                        ELSE nd[r].next[l]]]]
        prevs1 == [l \in 1..kMaxHeight |->
                     IF l <= h \/ l = 1 THEN next_node ELSE prevs[l]]
    IN  LinkWalk(nd1, prevs1, nd[next_node].next[1])

\* The records of the nodes reached by next on a level from node n.
RECURSIVE NodeChain(_, _, _, _)
NodeChain(nd, n, level, fuel) ==
  IF n = 0 \/ fuel = 0 THEN <<>>
  ELSE <<n>> \o NodeChain(nd, nd[n].next[level], level, fuel - 1)

\* A link phase that leaves the nodes as the segment walks left them.
LinkedNodesUnlinked(nd, header) == nd

LinkedNodes(nd, header) ==
  LinkWalk(nd, [l \in 1..kMaxHeight |-> header], nd[header].next[1])

\* A task of the link phase; the tasks run in batches of
\* num_rebuild_threads_ skiplists.
linkHighDramNodes(c) ==
  /\ phase = "link"
  /\ c \in RebuildIds \ batch
  /\ \A d \in RebuildIds :
       (Rank(d) - 1) \div NThreads < (Rank(c) - 1) \div NThreads => d \in batch
  /\ nodes' = LinkedNodes(nodes, rebuild_skiplits_[c].header)
  /\ next_tid_' = next_tid_ + 1
  /\ batch' = batch \cup {c}
  /\ hist' = [hist EXCEPT !.level1[c] =
                <<rebuild_skiplits_[c].header>> \o
                  NodeChain(nodes, nodes[rebuild_skiplits_[c].header].next[1],
                            1, NRec + 1)]
  /\ UNCHANGED <<pmem, freed, double_freed, checkpoint_, hpmap, vhb, call,
                 segment_based_rebuild_, hash_configured, phase, scan_plan, header_values, log_, scanned,
                 linked_headers_, init_i, thread_cache, recovery_segments_,
                 rebuild_skiplits_, invalid_skiplists_, hash_table, worker,
                 ret>>

\* segmentBasedIndexRebuild returns Ok after the last batch.
segmentBasedDone ==
  /\ phase = "link"
  /\ RebuildIds \subseteq batch
  /\ recovery_segments_' = [r \in {} |-> FALSE]
  /\ phase' = "clean"
  /\ UNCHANGED <<pmem, freed, double_freed, checkpoint_, hpmap, vhb, call,
                 segment_based_rebuild_, hash_configured, scan_plan, header_values, log_, scanned,
                 linked_headers_, init_i, thread_cache, nodes,
                 rebuild_skiplits_, invalid_skiplists_, hash_table, worker,
                 next_tid_, batch, ret, hist>>

\* -------------------------------------------------------------- reclamation
\* The records of the list of header h, h first (Skiplist::Destroy frees
\* them all).
RECURSIVE ChainFrom(_, _, _, _)
ChainFrom(m, h, r, fuel) ==
  IF fuel = 0 \/ r = kNullPMemOffset THEN <<>>
  ELSE IF m[r].next = h THEN <<r>>
  ELSE <<r>> \o ChainFrom(m, h, m[r].next, fuel - 1)

ListRecords(m, h) == ChainFrom(m, h, h, NRec)

Range(seq) == {seq[i] : i \in 1..Len(seq)}

UnlinkedRecords == UNION {thread_cache[t].unlinked_records : t \in Threads}

\* A reclamation that frees every queued record without the re-check.
ToFreeUnchecked(m) == UnlinkedRecords

\* A reclamation that frees the queued records failing both checks.
ToFreeBothFail(m) ==
  {r \in UnlinkedRecords : ~MatchType(m, r) /\ ~CheckLinkage(m, r)}

\* The queued records that fail the final check.
ToFree(m) == {r \in UnlinkedRecords : ~MatchType(m, r) \/ ~CheckLinkage(m, r)}

InvalidListRecords(m) ==
  UNION {Range(ListRecords(m, invalid_skiplists_[c].header)) : c \in InvalidIds}

\* The end of Rebuild with every phase Ok: the result takes the rebuild
\* skiplists and cleanInvalidRecords runs.
cleanInvalidRecords ==
  /\ phase = "clean"
  /\ LET tf == ToFree(pmem)
         il == InvalidListRecords(pmem)
         dead == tf \cup il
     IN
     /\ pmem' = [r \in Recs |-> IF r \in dead THEN Destroy(pmem, r)[r]
                                ELSE pmem[r]]
     /\ freed' = freed \cup dead
     /\ double_freed' =
          (\/ double_freed
           \/ dead \cap freed # {}
           \/ tf \cap il # {}
           \/ \E t, u \in Threads :
                /\ t # u
                /\ tf \cap thread_cache[t].unlinked_records
                      \cap thread_cache[u].unlinked_records # {})
     /\ hist' = [hist EXCEPT !.batch_freed = tf, !.destroyed_lists = il,
                             !.cleaned = TRUE, !.pmem_clean = pmem,
                             !.unlinked_clean = UnlinkedRecords]
  /\ thread_cache' = [t \in Threads |->
                        [thread_cache[t] EXCEPT !.unlinked_records = {}]]
  /\ invalid_skiplists_' = [c \in Ids |-> NoList]
  /\ ret' = [s |-> "Ok", skiplists |-> RebuildIds]
  /\ phase' = "done"
  /\ UNCHANGED <<checkpoint_, hpmap, vhb, call, segment_based_rebuild_, hash_configured,
                 scan_plan, header_values, log_, scanned, linked_headers_, init_i, recovery_segments_, nodes,
                 rebuild_skiplits_, hash_table, worker, next_tid_, batch>>

\* ------------------------------------------------------------ specification
Next ==
  \/ \E r \in Recs : Rollback(r)
  \/ \E r \in Recs, t \in Threads : AddHeader(r, t)
  \/ \E r \in Recs, t \in Threads : AddElement(r, t)
  \/ Rebuild
  \/ initRebuildLists
  \/ initRebuildListsDone
  \/ listBasedIndexRebuild
  \/ \E t \in Threads : rebuildSkiplistIndex(t)
  \/ listBasedJoin
  \/ segmentBasedIndexRebuild
  \/ \E t \in Threads : rebuild_segments_index(t)
  \/ \E t \in Threads : rebuildSegmentIndex(t)
  \/ segmentBasedJoin
  \/ \E c \in Ids : linkHighDramNodes(c)
  \/ segmentBasedDone
  \/ cleanInvalidRecords

Spec == Init /\ [][Next]_vars

\* The scan goes on, Rebuild is called, and a thread that can take a step
\* (its lock acquisitions included) eventually takes one.
SpecLive == Init /\ [][Next]_vars /\ WF_vars(Next)

\* ------------------------------------- findCheckpointVersion on any chain
\* Version chains of up to ChainLen records of any timestamps and collection
\* ids, and any checkpoint.
ChainLen == 3
Stamps == {TsOld, CheckpointAt, TsNew}

ChainMedia(len, ts, id) ==
  [r \in Recs |->
     IF r <= len
       THEN DLRecord("SortedElem", "Normal", ts[r], id[r], 1, kNullPMemOffset,
                     kNullPMemOffset,
                     IF r < len THEN r + 1 ELSE kNullPMemOffset, FALSE)
       ELSE EmptyRec]

InitFind ==
  \E len \in 1..ChainLen, ts \in [1..ChainLen -> Stamps],
     id \in [1..ChainLen -> Ids], cp \in {0} \cup Stamps :
    /\ pmem = ChainMedia(len, ts, id)
    /\ checkpoint_ = cp
    /\ segment_based_rebuild_ = FALSE
    /\ hash_configured = FALSE
    /\ scan_plan = [desc |-> FALSE, alt |-> FALSE]
    /\ header_values = [c \in Ids |-> "ok"]
    /\ log_ = {}
    /\ hash_table = {}
    /\ phase = "find"
    /\ Constructed
    /\ VHashGroupConstructed
    /\ hist = [pmem0 |-> pmem, find_in |-> kNullPMemOffset,
               find_out |-> kNullPMemOffset]

\* A caller asks for the checkpoint version of record r.
FindVersion(r) ==
  /\ phase = "find"
  /\ Validate(pmem, r)
  /\ phase' = "found"
  /\ hist' = [hist EXCEPT !.find_in = r,
                          !.find_out = findCheckpointVersion(pmem, r)]
  /\ UNCHANGED <<pmem, freed, double_freed, checkpoint_, hpmap, vhb, call,
                 segment_based_rebuild_, hash_configured, scan_plan,
                 header_values, log_, scanned, linked_headers_, init_i,
                 thread_cache, recovery_segments_, nodes, rebuild_skiplits_,
                 invalid_skiplists_, hash_table, worker, next_tid_, batch,
                 ret>>

NextFind == \E r \in Recs : FindVersion(r)

SpecFind == InitFind /\ [][NextFind]_vars

\* ---------------------------------------- VHashGroup under concurrent calls
\* Each thread makes up to MaxCalls calls of Create, Destroy and Get on any
\* names; a call's steps interleave with the other thread's.
InitVHash ==
  /\ pmem = [r \in Recs |-> EmptyRec]
  /\ checkpoint_ = 0
  /\ segment_based_rebuild_ = FALSE
  /\ hash_configured = FALSE
  /\ scan_plan = [desc |-> FALSE, alt |-> FALSE]
  /\ header_values = [c \in Ids |-> "ok"]
  /\ log_ = {}
  /\ hash_table = {}
  /\ phase = "vhash"
  /\ Constructed
  /\ VHashGroupConstructed
  /\ hist = [pmem0 |-> pmem]

\* lookup(name, acquire_lock) returns its accessor once no other accessor
\* holds the entry of name.
LockIgnored(m, name) == TRUE

LockFree(m, name) == ~m[name].locked

\* VHashBuilder::NewVHash: a VHash that did not exist before.
NewVHash(b, name) ==
  [b EXCEPT !.made = @ + 1,
            !.live = @ \cup {[id |-> b.made + 1, name |-> name]}]

\* VHashBuilder::Recycle.
Recycle(b, vhash, name) ==
  [b EXCEPT !.live = @ \ {[id |-> vhash, name |-> name]},
            !.recycled = @ \cup {[id |-> vhash, name |-> name]}]

CanCall(t) == call[t].pc \in {"idle", "returned"} /\ call[t].n < MaxCalls

UnchangedRebuilder ==
  UNCHANGED <<pmem, freed, double_freed, checkpoint_, segment_based_rebuild_,
              hash_configured, phase, scan_plan, header_values, log_,
              scanned, linked_headers_, init_i, thread_cache,
              recovery_segments_, nodes, rebuild_skiplits_,
              invalid_skiplists_, hash_table, worker, next_tid_, batch, ret,
              hist>>

\* A thread calls Create(name) or Destroy(name) and asks for the accessor.
CallLocked(t, op, name) ==
  /\ phase = "vhash"
  /\ CanCall(t)
  /\ call' = [call EXCEPT ![t] = [IdleCall EXCEPT !.op = op, !.name = name,
                                                  !.pc = "lookup",
                                                  !.n = call[t].n + 1]]
  /\ UNCHANGED <<hpmap, vhb>>
  /\ UnchangedRebuilder

\* The VHashes of name recycled so far.
RecycledOf(b, name) == {v \in b.recycled : v.name = name}

\* The accessor is handed out: the entry is locked until the call returns.
Lookup(t) ==
  /\ call[t].pc = "lookup"
  /\ LockFree(hpmap, call[t].name)
  /\ hpmap' = [hpmap EXCEPT ![call[t].name].locked = TRUE]
  /\ call' = [u \in Threads |->
               IF u = t
                 THEN [call[t] EXCEPT
                        !.pc = "locked",
                        !.seen = hpmap[call[t].name].pointer,
                        !.epoch = Cardinality(RecycledOf(vhb, call[t].name))]
               ELSE IF call[u].pc = "lookup" /\ call[u].name = call[t].name
                 THEN [call[u] EXCEPT !.contended = TRUE]
               ELSE call[u]]
  /\ UNCHANGED vhb
  /\ UnchangedRebuilder

\* The call returns: its accessor goes out of scope.
Return(t, result) ==
  [call[t] EXCEPT !.pc = "returned", !.result = result,
                  !.left = hpmap'[call[t].name].pointer]

VHashGroupCreate(t) ==
  /\ call[t].op = "Create"
  /\ call[t].pc = "locked"
  /\ IF hpmap[call[t].name].pointer # nullptr
       THEN /\ hpmap' = [hpmap EXCEPT ![call[t].name].locked = FALSE]
            /\ call' = [call EXCEPT ![t] = Return(t, FALSE)]
            /\ UNCHANGED vhb
       ELSE /\ vhb' = NewVHash(vhb, call[t].name)
            /\ call' = [call EXCEPT ![t].pc = "made", ![t].vhash = vhb.made + 1]
            /\ UNCHANGED hpmap
  /\ UnchangedRebuilder

VHashGroupCreateSet(t) ==
  /\ call[t].op = "Create"
  /\ call[t].pc = "made"
  /\ hpmap' = [hpmap EXCEPT ![call[t].name] =
                  [pointer |-> call[t].vhash, locked |-> FALSE]]
  /\ call' = [call EXCEPT ![t] = Return(t, TRUE)]
  /\ UNCHANGED vhb
  /\ UnchangedRebuilder

VHashGroupDestroy(t) ==
  /\ call[t].op = "Destroy"
  /\ call[t].pc = "locked"
  /\ IF hpmap[call[t].name].pointer = nullptr
       THEN /\ hpmap' = [hpmap EXCEPT ![call[t].name].locked = FALSE]
            /\ call' = [call EXCEPT ![t] = Return(t, FALSE)]
       ELSE /\ hpmap' = [hpmap EXCEPT ![call[t].name].pointer = nullptr]
            /\ call' = [call EXCEPT ![t].pc = "erased",
                                    ![t].vhash = hpmap[call[t].name].pointer]
  /\ UNCHANGED vhb
  /\ UnchangedRebuilder

VHashGroupDestroyRecycle(t) ==
  /\ call[t].op = "Destroy"
  /\ call[t].pc = "erased"
  /\ vhb' = Recycle(vhb, call[t].vhash, call[t].name)
  /\ hpmap' = [hpmap EXCEPT ![call[t].name].locked = FALSE]
  /\ call' = [call EXCEPT ![t] = Return(t, TRUE)]
  /\ UnchangedRebuilder

\* Get(name): a lockless lookup.
VHashGroupGet(t, name) ==
  /\ phase = "vhash"
  /\ CanCall(t)
  /\ call' = [call EXCEPT ![t] = [IdleCall EXCEPT
                 !.op = "Get", !.name = name, !.pc = "returned",
                 !.vhash = hpmap[name].pointer, !.n = call[t].n + 1]]
  /\ UNCHANGED <<hpmap, vhb>>
  /\ UnchangedRebuilder

NextVHash ==
  \/ \E t \in Threads, name \in Names : CallLocked(t, "Create", name)
  \/ \E t \in Threads, name \in Names : CallLocked(t, "Destroy", name)
  \/ \E t \in Threads : Lookup(t)
  \/ \E t \in Threads : VHashGroupCreate(t)
  \/ \E t \in Threads : VHashGroupCreateSet(t)
  \/ \E t \in Threads : VHashGroupDestroy(t)
  \/ \E t \in Threads : VHashGroupDestroyRecycle(t)
  \/ \E t \in Threads, name \in Names : VHashGroupGet(t, name)

SpecVHash == InitVHash /\ [][NextVHash]_vars

\* ------------------------------------------------------ reading the result
\* Rebuild has returned Ok.
RebuildOk == phase = "done" /\ ret.s = "Ok"

HeaderRecordOf(c) == rebuild_skiplits_[c].header

\* The on-media elements of the list of header h, in next order.
MediaElems(m, h) == Tail(ListRecords(m, h))

\* The list of header h closes at h.
Closes(m, h) == m[ListRecords(m, h)[Len(ListRecords(m, h))]].next = h

LevelNodes(nd, h, level) == NodeChain(nd, nd[h].next[level], level, NRec + 1)

\* The header that was linked for collection c before recovery, and the
\* elements of its list.
OrigHeader(c) ==
  CHOOSE h \in Recs : /\ hist.pmem0[h].type = "SortedRecord"
                      /\ hist.pmem0[h].id = c
                      /\ CheckLinkage(hist.pmem0, h)

OrigElems(c) == MediaElems(hist.pmem0, OrigHeader(c))

\* The youngest record with a timestamp <= the checkpoint on the old_version
\* chain that r had before recovery; r itself without a checkpoint; 0: none.
RECURSIVE OldChain(_, _, _)
OldChain(m, r, fuel) ==
  IF r = kNullPMemOffset \/ fuel = 0 THEN {}
  ELSE {r} \cup OldChain(m, m[r].old, fuel - 1)

VisibleBefore(r) ==
  IF checkpoint_ = 0 THEN r
  ELSE LET S == {x \in OldChain(hist.pmem0, r, NRec) :
                   hist.pmem0[x].ts <= checkpoint_}
       IN  IF S = {} THEN kNullPMemOffset
           ELSE CHOOSE x \in S : \A y \in S : hist.pmem0[y].ts <= hist.pmem0[x].ts

\* The element at this position has a version to keep.
Keepable(r) ==
  /\ VisibleBefore(r) # kNullPMemOffset
  /\ hist.pmem0[VisibleBefore(r)].status # "Outdated"

IsSubseq(f, g) ==
  \E pos \in [1..Len(f) -> 1..Len(g)] :
    /\ \A i, j \in 1..Len(f) : i < j => pos[i] < pos[j]
    /\ \A i \in 1..Len(f) : g[pos[i]] = f[i]

ElemEntries(c) == {e \in hash_table : e.key[1] = "elem" /\ e.key[2] = c}

\* ------------------------------------------------------------------ claims

\* C1: after Rebuild returns Ok, in either mode and with or without a
\* checkpoint, every record reachable by next from the header of a returned
\* skiplist has prev.next = self and next.prev = self, and the list closes at
\* the header.
C1_LinkageIntegrity ==
  RebuildOk =>
    \A c \in ret.skiplists :
      /\ Closes(pmem, HeaderRecordOf(c))
      /\ \A r \in Range(ListRecords(pmem, HeaderRecordOf(c))) :
           CheckLinkage(pmem, r)

\* C1 witness: a segment-based rebuild returned a list with an element after
\* removing one record and replacing another (the header or an element).
C1_Witness ==
  /\ RebuildOk
  /\ hist.removed # {}
  /\ hist.replaced # {}
  /\ \E c \in ret.skiplists : Len(MediaElems(pmem, HeaderRecordOf(c))) >= 1

LinkedHeaders(m, c) ==
  {h \in Recs : m[h].type = "SortedRecord" /\ m[h].id = c /\ CheckLinkage(m, h)}

AfterResolution == phase \in {"index", "link", "clean"} \/ RebuildOk

\* C2 as stated: after header resolution at most one header per id is linked
\* and every older duplicate fails both the prev and the next linkage check.
C2_OlderDuplicatesStayBroken ==
  AfterResolution =>
    /\ \A c \in Ids : Cardinality(LinkedHeaders(pmem, c)) <= 1
    /\ \A h \in hist.broken :
         ~CheckPrevLinkage(pmem, h) /\ ~CheckNextLinkage(pmem, h)

\* C2 amended: at most one header per id is linked after header resolution;
\* every older duplicate is queued as unlinked and fails both linkage checks,
\* unless it is the checkpoint version of the youngest header, which is
\* linked back in its place as the header of the collection.
C2_UniqueLinkedHeader ==
  AfterResolution =>
    /\ \A c \in Ids : Cardinality(LinkedHeaders(pmem, c)) <= 1
    /\ \A h \in hist.broken :
         /\ h \in hist.queued
         /\ \/ ~CheckPrevLinkage(pmem, h) /\ ~CheckNextLinkage(pmem, h)
            \/ /\ recoverToCheckpoint
               /\ \E y \in hist.replaced :
                    hist.pmem0[y].id = hist.pmem0[h].id /\ VisibleBefore(y) = h
               /\ \/ h \in hist.invalid_headers
                  \/ HeaderRecordOf(hist.pmem0[h].id) = h

\* C2 witness: an older duplicate header was broken in place and recovery
\* went on with the younger one alone.
C2_Witness ==
  /\ RebuildOk
  /\ hist.broken # {}
  /\ \E c \in ret.skiplists : HeaderRecordOf(c) \notin hist.broken

\* C3: with a checkpoint, the elements reachable after Rebuild are, in
\* order, checkpoint versions (the youngest record with timestamp <= C on
\* the pre-recovery old_version chain) of the records that were linked before
\* recovery; where that version is another record than the linked one and is
\* kept, the linked one left the list and was queued as unlinked, the
\* version is in the list, and the hash entry of the key, if enabled, points
\* to the version.
C3_CheckpointVisibility ==
  RebuildOk =>
    \A c \in ret.skiplists :
      LET F == MediaElems(pmem, HeaderRecordOf(c))
          L == OrigElems(c)
          Vis == [j \in 1..Len(L) |-> VisibleBefore(L[j])]
      IN
      /\ IsSubseq(F, Vis)
      /\ \A j \in 1..Len(L) :
           Vis[j] # L[j] /\ Keepable(L[j]) =>
             /\ Vis[j] \in Range(F)
             /\ L[j] \notin Range(F)
             /\ L[j] \in hist.queued
             /\ rebuild_skiplits_[c].index_with_hashtable =>
                  \E e \in hash_table :
                    e.key = Key(hist.pmem0, L[j]) /\ e.ptr = Vis[j]

\* C3 witness: a newer record was replaced by its version at the checkpoint
\* in a collection with a hash index.
C3_Witness ==
  /\ RebuildOk
  /\ recoverToCheckpoint
  /\ \E c \in ret.skiplists :
       /\ rebuild_skiplits_[c].index_with_hashtable
       /\ \E j \in 1..Len(OrigElems(c)) :
            /\ VisibleBefore(OrigElems(c)[j]) # OrigElems(c)[j]
            /\ VisibleBefore(OrigElems(c)[j]) \in
                 Range(MediaElems(pmem, HeaderRecordOf(c)))

\* C4: after Rebuild returns Ok, a skiplist with index_with_hashtable has
\* exactly one hash entry per reachable element, under the element's internal
\* key, pointing to the element (as a SkiplistNode when a node was built, as
\* a DLRecord otherwise), and none for a removed element; a skiplist without
\* the flag has no element entries.
C4_HashIndexConsistency ==
  RebuildOk =>
    \A c \in ret.skiplists :
      LET F == MediaElems(pmem, HeaderRecordOf(c)) IN
      IF rebuild_skiplits_[c].index_with_hashtable THEN
        /\ \A x \in Range(F) :
             /\ Cardinality({e \in ElemEntries(c) : e.key = Key(pmem, x)}) = 1
             /\ \A e \in ElemEntries(c) :
                  e.key = Key(pmem, x) =>
                    /\ e.ptr = x
                    /\ e.type = IF nodes[x].height > 0 THEN "SkiplistNode"
                                ELSE "DLRecord"
        /\ \A e \in ElemEntries(c) : e.ptr \in Range(F)
        /\ \A r \in hist.removed : \A e \in ElemEntries(c) :
             e.ptr # r /\ e.key # Key(hist.pmem0, r)
      ELSE ElemEntries(c) = {}

\* C4 witness: a hash-indexed list was returned with an element indexed by
\* its node, one indexed by its record, or after a removal.
C4_Witness ==
  /\ RebuildOk
  /\ \E c \in ret.skiplists :
       /\ rebuild_skiplits_[c].index_with_hashtable
       /\ \E e \in ElemEntries(c) : e.type = "DLRecord"
       /\ \E e \in ElemEntries(c) : e.type = "SkiplistNode"

\* C5 as stated: the level-1 node sequence equals the on-media element
\* sequence, whatever NewNodeBuild returns for interior elements.
C5_Level1EqualsMedia ==
  RebuildOk =>
    \A c \in ret.skiplists :
      LevelNodes(nodes, HeaderRecordOf(c), 1) = MediaElems(pmem, HeaderRecordOf(c))

HasNode(x) == nodes[x].height > 0

\* C5 amended: the level-1 node sequence is the on-media element sequence
\* restricted to the elements NewNodeBuild built a node for, in the same
\* order (the whole sequence when it built one for every element).
C5_Level1MirrorsMedia ==
  RebuildOk =>
    \A c \in ret.skiplists :
      LevelNodes(nodes, HeaderRecordOf(c), 1) =
        SelectSeq(MediaElems(pmem, HeaderRecordOf(c)), HasNode)

\* C5 witness: a segment-based rebuild returned a list of two elements, one
\* of them a segment start, every one with a node.
C5_Witness ==
  /\ RebuildOk
  /\ segment_based_rebuild_
  /\ \E c \in ret.skiplists :
       /\ Len(LevelNodes(nodes, HeaderRecordOf(c), 1)) >= 2
       /\ Range(MediaElems(pmem, HeaderRecordOf(c))) \cap hist.starts # {}

ReachableRecords ==
  UNION {Range(ListRecords(pmem, HeaderRecordOf(c))) : c \in ret.skiplists}

\* C6: every record the rebuilder freed (at intake, from the unlinked
\* queues, with an invalid skiplist) is, at the end, neither reachable from
\* the header of a returned skiplist nor the old_version of a reachable
\* record.
C6_ReclamationSoundness ==
  RebuildOk =>
    \A r \in freed :
      /\ r \notin ReachableRecords
      /\ \A x \in ReachableRecords : pmem[x].old # r

\* C6 witness: reclamation freed a queued record and spared another one,
\* which is reachable.
C6_Witness ==
  /\ RebuildOk
  /\ hist.batch_freed # {}
  /\ (hist.queued \ freed) \cap ReachableRecords # {}

\* C7: after Rebuild returns Ok, the size of each returned skiplist is the
\* number of elements reachable on media from its header; in segment-based
\* mode that is the sum of the counts the segment walks published.
C7_ElementCount ==
  RebuildOk =>
    \A c \in ret.skiplists :
      rebuild_skiplits_[c].size = Len(MediaElems(pmem, HeaderRecordOf(c)))

\* C7 witness: a segment-based rebuild with an element as segment start
\* returned a list of two elements.
C7_Witness ==
  /\ RebuildOk
  /\ segment_based_rebuild_
  /\ \E c \in ret.skiplists :
       /\ rebuild_skiplits_[c].size >= 2
       /\ Range(MediaElems(pmem, HeaderRecordOf(c))) \cap hist.starts # {}

\* What a list-based walk makes of the list of header c after header
\* resolution: the media, the hash index and the element count.
RECURSIVE ListWalk(_, _, _, _, _, _)
ListWalk(m, ht, c, cur, n, fuel) ==
  LET next_record == m[cur].next IN
  IF next_record = HeaderRecordOf(c) \/ fuel = 0 THEN [m |-> m, ht |-> ht, n |-> n]
  ELSE LET step == ElemStep(m, thread_cache, ht, hist, next_record, 0, 0,
                            rebuild_skiplits_[c].index_with_hashtable)
       IN  IF step.v = kNullPMemOffset
             THEN ListWalk(step.m, step.ht, c, cur, n, fuel - 1)
             ELSE ListWalk(step.m, step.ht, c, step.v, n + 1, fuel - 1)

ListBased(c) ==
  ListWalk(hist.pmem_resolved, {}, c, HeaderRecordOf(c), 0, NRec)

Resolves(ht, c) ==
  {<<e.key, e.ptr>> : e \in {x \in ht : x.key[1] = "elem" /\ x.key[2] = c}}

SameAsListBased(c) ==
  /\ MediaElems(pmem, HeaderRecordOf(c)) =
       MediaElems(ListBased(c).m, HeaderRecordOf(c))
  /\ \A r \in Range(ListRecords(pmem, HeaderRecordOf(c))) :
       /\ pmem[r].prev = ListBased(c).m[r].prev
       /\ pmem[r].next = ListBased(c).m[r].next
  /\ rebuild_skiplits_[c].size = ListBased(c).n
  /\ Resolves(hash_table, c) = Resolves(ListBased(c).ht, c)

\* C8: mode parity.  The segment-based rebuild ends, for every returned
\* skiplist, with the on-media linkage, the element count and the hash
\* entries (key to record) that the list-based walk makes of the same media
\* after header resolution, whichever elements were nominated as segment
\* starts.
C8_ModeParity ==
  RebuildOk /\ segment_based_rebuild_ =>
    \A c \in ret.skiplists : SameAsListBased(c)

\* The list-based rebuild of the model ends as the list-based walk.
ListModeIsListWalk ==
  RebuildOk /\ ~segment_based_rebuild_ =>
    \A c \in ret.skiplists : SameAsListBased(c)

\* The two modes end alike when no segment start is an Outdated record.
ParityWithoutOutdatedStart ==
  /\ RebuildOk
  /\ segment_based_rebuild_
  /\ \A r \in hist.starts : hist.pmem0[r].status # "Outdated"
  => \A c \in ret.skiplists : SameAsListBased(c)

\* An element of the list of c before recovery with no version to keep is
\* gone after recovery.
Dropped(c, r) ==
  /\ r \notin Range(MediaElems(pmem, HeaderRecordOf(c)))
  /\ r \in hist.queued
  /\ rebuild_skiplits_[c].size =
       Cardinality({x \in Range(OrigElems(c)) : Keepable(x)})
  /\ \A e \in ElemEntries(c) : e.key # Key(hist.pmem0, r) /\ e.ptr # r

\* C9: every element whose checkpoint version is absent or Outdated is,
\* after Rebuild, out of the on-media list, queued as unlinked, not counted
\* in the size and without a hash entry, in both modes, also when it was
\* sampled as a segment start.
C9_NoVisibleVersionRemoved ==
  RebuildOk =>
    \A c \in ret.skiplists :
      \A r \in Range(OrigElems(c)) : ~Keepable(r) => Dropped(c, r)

\* The same for the list-based rebuild alone.
ListModeRemovesOutdated ==
  RebuildOk /\ ~segment_based_rebuild_ =>
    \A c \in ret.skiplists :
      \A r \in Range(OrigElems(c)) : ~Keepable(r) => Dropped(c, r)

\* The same for the elements that were not sampled as segment starts.
InteriorOutdatedRemoved ==
  RebuildOk =>
    \A c \in ret.skiplists :
      (\A x \in Range(OrigElems(c)) : Keepable(x) \/ x \notin hist.starts) =>
        \A r \in Range(OrigElems(c)) : ~Keepable(r) => Dropped(c, r)

\* Two self-linked headers of one collection, h the older.
DuplicateEmptyHeaders(h, y) ==
  /\ hist.pmem0[h].type = "SortedRecord" /\ hist.pmem0[y].type = "SortedRecord"
  /\ hist.pmem0[h].id = hist.pmem0[y].id
  /\ hist.pmem0[h].ts < hist.pmem0[y].ts
  /\ hist.pmem0[h].prev = h /\ hist.pmem0[h].next = h
  /\ hist.pmem0[y].prev = y /\ hist.pmem0[y].next = y

OlderHeaderGone(h, y) ==
  /\ pmem[h].prev = y
  /\ ~CheckPrevLinkage(pmem, h) /\ ~CheckNextLinkage(pmem, h)
  /\ h \in hist.queued
  /\ h \in freed

\* C10 as stated: of two self-linked headers of one id, the older has its
\* prev rewritten to the younger, fails both checks, is queued and freed, and
\* the younger is kept as an empty invalid collection.
C10_YoungerKeptInvalid ==
  RebuildOk =>
    \A h, y \in Recs :
      DuplicateEmptyHeaders(h, y) /\ h \in hist.broken =>
        /\ OlderHeaderGone(h, y)
        /\ y \in hist.invalid_headers
        /\ y \notin freed

\* C10 amended: the older header is rewritten and queued; unless it is the
\* checkpoint version of the younger one it then fails both checks and is
\* freed.  The younger header, when it is its own checkpoint version, Normal
\* and not expired, is the header of a returned collection with no elements
\* and size 0; with no version at the checkpoint its collection is invalid
\* and it is freed.
C10_DuplicateEmptyHeader ==
  RebuildOk =>
    \A h, y \in Recs :
      DuplicateEmptyHeaders(h, y) /\ h \in hist.broken =>
        /\ h \in hist.queued
        /\ VisibleBefore(y) # h => OlderHeaderGone(h, y)
        /\ VisibleBefore(y) = y /\ hist.pmem0[y].status = "Normal"
             /\ ~hist.pmem0[y].expired =>
             /\ hist.pmem0[y].id \in ret.skiplists
             /\ HeaderRecordOf(hist.pmem0[y].id) = y
             /\ MediaElems(pmem, y) = <<>>
             /\ rebuild_skiplits_[hist.pmem0[y].id].size = 0
             /\ CheckLinkage(pmem, y)
             /\ y \notin freed
        /\ VisibleBefore(y) = kNullPMemOffset =>
             /\ hist.pmem0[y].id \notin ret.skiplists
             /\ y \in hist.invalid_headers
             /\ y \in freed

\* C10 witness: the younger of two self-linked headers came back as an empty
\* collection and the older one was freed.
C10_Witness ==
  /\ RebuildOk
  /\ \E h \in hist.broken : \E y \in Recs :
       /\ DuplicateEmptyHeaders(h, y)
       /\ h \in freed
       /\ hist.pmem0[y].id \in ret.skiplists
       /\ HeaderRecordOf(hist.pmem0[y].id) = y

\* The log entries have just been rolled back.
RolledBack ==
  phase = "intake" /\ scanned = {} /\ log_ = {} /\ hist.rolled # {}

\* The logged record validates and its prev points back to it.
Undoable(m, r) == Validate(m, r) /\ CheckPrevLinkage(m, r)

\* seq without r, or with r replaced by o when there is an o.
Undone(seq, r, o) ==
  LET NotR(x) == x # r IN
  IF o = kNullPMemOffset THEN SelectSeq(seq, NotR)
  ELSE [j \in 1..Len(seq) |-> IF seq[j] = r THEN o ELSE seq[j]]

\* C11: Rollback of an entry whose element validates and has intact prev
\* linkage removes the element (old_version null: its former neighbours
\* point to each other) or puts its old version in its place; in every case
\* the logged record is destroyed, and prev and next of every other record
\* are as before, except the neighbours' pointers to the element and the
\* pointers the old version takes over.
C11_RollbackUndoesWrite ==
  RolledBack =>
    \A r \in hist.rolled :
      LET b == hist.pmem_logged
          p == b[r].prev
          n == b[r].next
          o == b[r].old
          h == HeaderRec
      IN
      /\ pmem[r].type = "Padding"
      /\ IF Undoable(b, r) THEN
           /\ ListRecords(pmem, h) = Undone(ListRecords(b, h), r, o)
           /\ \A x \in Range(ListRecords(pmem, h)) : CheckLinkage(pmem, x)
           /\ IF o = kNullPMemOffset
                THEN pmem[p].next = n /\ pmem[n].prev = p
                ELSE /\ pmem[p].next = o /\ pmem[n].prev = o
                     /\ pmem[o].prev = p /\ pmem[o].next = n
           /\ \A x \in Recs \ {r, o} :
                /\ x # n => pmem[x].prev = b[x].prev
                /\ x # p => pmem[x].next = b[x].next
         ELSE
           \A x \in Recs \ {r} : pmem[x] = b[x]
      /\ \A x \in Recs \ {r} : pmem[x].type = b[x].type

\* C11 witness: a half-linked insert (its next does not point back yet) was
\* rolled back.
C11_Witness ==
  /\ RolledBack
  /\ \E r \in hist.rolled :
       /\ Undoable(hist.pmem_logged, r)
       /\ ~CheckNextLinkage(hist.pmem_logged, r)
       /\ hist.pmem_logged[r].old = kNullPMemOffset

\* The header of collection c that header resolution goes on with: the
\* youngest one that was linked before the intake; 0 when there is none.
Survivor(c) ==
  LET hs == LinkedHeaders(hist.pmem0, c) IN
  IF hs = {} THEN kNullPMemOffset
  ELSE CHOOSE h \in hs : \A g \in hs : hist.pmem0[g].ts <= hist.pmem0[h].ts

\* The collection of c is to be classified invalid.
NotVisible(c) ==
  LET v == VisibleBefore(Survivor(c)) IN
  \/ v = kNullPMemOffset
  \/ hist.pmem0[v].id # c
  \/ hist.pmem0[v].status = "Outdated"
  \/ hist.pmem0[v].expired

\* C12: a collection whose header has no checkpoint version, or one of
\* another id, or one that is Outdated or expired, is invalid: it is not in
\* the result, has no hash entry, and all records of its list are destroyed
\* and freed by reclamation; every other resolved header gives exactly one
\* returned skiplist; no id is ever in both maps.
C12_InvalidClassification ==
  /\ \A c \in Ids : rebuild_skiplits_[c] = NoList \/ invalid_skiplists_[c] = NoList
  /\ RebuildOk =>
       \A c \in Ids :
         Survivor(c) # kNullPMemOffset =>
           IF NotVisible(c) THEN
             /\ c \notin ret.skiplists
             /\ rebuild_skiplits_[c] = NoList
             /\ hist.invalid_headers \cap
                  {Survivor(c), VisibleBefore(Survivor(c))} # {}
             /\ \A e \in hash_table : e.key[2] # c
             /\ \A x \in Range(ListRecords(hist.pmem0, Survivor(c))) :
                  x \in freed /\ pmem[x].type = "Padding"
             /\ VisibleBefore(Survivor(c)) # kNullPMemOffset =>
                  /\ VisibleBefore(Survivor(c)) \in freed
                  /\ pmem[VisibleBefore(Survivor(c))].type = "Padding"
           ELSE
             /\ c \in ret.skiplists
             /\ HeaderRecordOf(c) = VisibleBefore(Survivor(c))
             /\ HeaderRecordOf(c) \notin hist.invalid_headers

\* C12 witness: a collection with elements whose header had expired at the
\* checkpoint was destroyed.
C12_Witness ==
  /\ RebuildOk
  /\ \E c \in Ids :
       /\ Survivor(c) # kNullPMemOffset
       /\ VisibleBefore(Survivor(c)) # kNullPMemOffset
       /\ hist.pmem0[VisibleBefore(Survivor(c))].expired
       /\ Len(ListRecords(hist.pmem0, Survivor(c))) >= 2
       /\ c \notin ret.skiplists

\* Rebuild has returned, with any status.
Returned == phase = "done"

\* A key the rebuild inserted had an entry before the recovery.
FoundExisting == \E e \in hist.hash0 : e.key \in hist.attempted

\* Header resolution met a header whose value does not decode or whose
\* comparator is not registered.
BadHeader == \E c \in Ids : header_values[c] # "ok" /\ Survivor(c) # kNullPMemOffset

\* C13: when a hash insert of the rebuild finds an entry, or a header's
\* comparator is not registered, or its value fails to decode, Rebuild
\* returns the failing status (Abort), no skiplist and reclaims nothing;
\* otherwise it returns Ok; an insert reports Ok only for a key that had no
\* entry.
C13_FatalErrorsStopRecovery ==
  /\ Returned =>
       /\ (FoundExisting \/ BadHeader) <=> ret.s # "Ok"
       /\ ret.s # "Ok" =>
            /\ ret.s = "Abort"
            /\ ret.skiplists = {}
            /\ ~hist.cleaned
            /\ freed = hist.purged
            /\ hist.batch_freed = {} /\ hist.destroyed_lists = {}
  /\ \A k \in hist.attempted \cup PreKeys :
       insertHashIndex(hash_table, k) = "Ok" <=>
         ~\E e \in hash_table : e.key = k

\* C13 witness: the insert for an element found an entry and Rebuild
\* returned Abort after another collection had been resolved.
C13_Witness ==
  /\ Returned
  /\ ret.s = "Abort"
  /\ \E e \in hist.hash0 : e.key \in hist.attempted /\ e.key[1] = "elem"
  /\ RebuildIds # {}

\* The records on the old_version chain of r, r first.
RECURSIVE ChainSeq(_, _, _)
ChainSeq(m, r, fuel) ==
  IF r = kNullPMemOffset \/ fuel = 0 THEN <<>>
  ELSE <<r>> \o ChainSeq(m, m[r].old, fuel - 1)

\* The first record of the chain with a timestamp <= cp, unless the chain up
\* to it holds a record of another collection id; 0: none.
FirstAtCheckpoint(m, cp, r) ==
  LET ch == ChainSeq(m, r, NRec)
      K == {k \in 1..Len(ch) : m[ch[k]].ts <= cp}
  IN  IF K = {} THEN kNullPMemOffset
      ELSE LET k == CHOOSE x \in K : \A y \in K : x <= y IN
           IF \E j \in 2..k : m[ch[j]].id # m[r].id THEN kNullPMemOffset
           ELSE ch[k]

\* C14: without a checkpoint findCheckpointVersion(r) is r; with one it is
\* the first record on r's old_version chain with a timestamp <= the
\* checkpoint, and null when the chain ends before or passes a record of
\* another collection id; the result never has a timestamp above the
\* checkpoint, and no record is modified.
C14_FindCheckpointVersion ==
  phase = "found" =>
    /\ checkpoint_ = 0 => hist.find_out = hist.find_in
    /\ checkpoint_ > 0 =>
         /\ hist.find_out = FirstAtCheckpoint(pmem, checkpoint_, hist.find_in)
         /\ hist.find_out # kNullPMemOffset =>
              pmem[hist.find_out].ts <= checkpoint_
    /\ pmem = hist.pmem0

\* C14 witness: the walk passed an ancestor of another collection id that
\* precedes a record old enough, and returned null.
C14_Witness ==
  /\ phase = "found"
  /\ checkpoint_ > 0
  /\ hist.find_out = kNullPMemOffset
  /\ \E k \in 1..Len(ChainSeq(pmem, hist.find_in, NRec)) :
       pmem[ChainSeq(pmem, hist.find_in, NRec)[k]].ts <= checkpoint_

\* The records the intake rejected.
Rejected == hist.rejected

\* The records the intake queued (Rebuild queues headers too).
IntakeQueued == Rejected \ hist.purged

\* The records waiting in a thread's unlinked_records.
Unlinked == UNION {thread_cache[t].unlinked_records : t \in Threads}

\* What the intake does with a record it rejects, segments aside.
RejectedHandling ==
  /\ phase = "intake" => ret.s = "None"
  /\ hist.purged \subseteq Rejected
  /\ \A r \in Rejected : r \in scanned /\ r \notin linked_headers_
  /\ \A r \in hist.purged : checkpoint_ = 0 /\ r \in freed /\ r \notin Unlinked
  /\ \A r \in IntakeQueued :
       /\ checkpoint_ > 0
       /\ ~hist.cleaned => r \in Unlinked /\ r \notin freed

\* r is the checkpoint version that initRebuildLists put in the place of a
\* linked header and made the header of a rebuild skiplist.
RestoredHeader(r) ==
  /\ checkpoint_ > 0
  /\ \E c \in Ids : rebuild_skiplits_[c].header = r
  /\ \E h \in hist.replaced :
       /\ hist.pmem0[h].type = "SortedRecord"
       /\ findCheckpointVersionAt(hist.pmem0, checkpoint_, h) = r

\* C15 as stated: a record whose linkage cannot be repaired does not fail the
\* intake, is never a linked header and never a recovery segment; without a
\* checkpoint it is purged and freed at once, with one it is queued and not
\* freed before cleanInvalidRecords runs.
C15_NeverASegment ==
  /\ RejectedHandling
  /\ \A r \in Rejected : r \notin DOMAIN recovery_segments_

\* C15: as above, but the record is not a recovery segment only as long as
\* the intake runs: initRebuildLists registers it when it is the checkpoint
\* version restored in the place of a linked header.
C15_UnrepairableIntake ==
  /\ RejectedHandling
  /\ \A r \in Rejected :
       r \in DOMAIN recovery_segments_ => phase # "intake" /\ RestoredHeader(r)

\* C15 witness: a header the intake queued is a recovery segment, still
\* queued and not freed.
C15_Witness ==
  \E r \in IntakeQueued :
    /\ r \in DOMAIN recovery_segments_
    /\ r \in Unlinked
    /\ r \notin freed

\* C16 as stated: cleanInvalidRecords frees a queued record only when it
\* fails both MatchType and CheckLinkage; one that still matches a sorted type
\* or still has valid linkage is left intact.
C16_FreedOnlyIfBothFail ==
  hist.cleaned =>
    \A r \in hist.unlinked_clean :
      MatchType(hist.pmem_clean, r) \/ CheckLinkage(hist.pmem_clean, r) =>
        r \notin hist.batch_freed

\* C16: cleanInvalidRecords destroys and frees exactly the queued records
\* that fail MatchType or fail CheckLinkage; a queued record that passes both
\* is left as it was, unless it goes with an invalid skiplist.
C16_FinalRecheck ==
  hist.cleaned =>
    /\ hist.batch_freed \subseteq freed
    /\ \A r \in hist.unlinked_clean :
         IF MatchType(hist.pmem_clean, r) /\ CheckLinkage(hist.pmem_clean, r)
           THEN /\ r \notin hist.batch_freed
                /\ r \notin hist.destroyed_lists =>
                     pmem[r] = hist.pmem_clean[r] /\ r \notin freed
           ELSE /\ r \in hist.batch_freed
                /\ pmem[r] = Destroy(hist.pmem_clean, r)[r]

\* C16 witness: the reclamation freed a queued record that still is a sorted
\* record but has lost its linkage, and left another queued record intact.
C16_Witness ==
  /\ hist.cleaned
  /\ \E r \in hist.batch_freed :
       MatchType(hist.pmem_clean, r) /\ ~CheckLinkage(hist.pmem_clean, r)
  /\ \E r \in hist.unlinked_clean \ hist.batch_freed :
       pmem[r] = hist.pmem_clean[r] /\ r \notin freed

\* The segment workers have been joined and none of them failed.
SegmentsJoined ==
  /\ segment_based_rebuild_
  /\ phase = "link"

\* C17: every entry of recovery_segments_ is claimed by exactly one worker
\* and rebuildSegmentIndex runs at most once per start; a claimed entry stays
\* visited; when the workers have been joined with Ok every entry is visited.
C17_SegmentClaimedOnce ==
  /\ \A s \in DOMAIN recovery_segments_ :
       /\ hist.claimed[s] = IF recovery_segments_[s] THEN 1 ELSE 0
       /\ hist.invoked[s] <= hist.claimed[s]
  /\ \A r \in Recs : hist.claimed[r] <= 1 /\ hist.invoked[r] <= 1
  /\ \A t, u \in Threads :
       /\ segment_based_rebuild_
       /\ t # u
       /\ worker[t].pc \in {"start", "walk"}
       /\ worker[u].pc \in {"start", "walk"}
       => worker[t].start # worker[u].start
  /\ SegmentsJoined =>
       \A s \in DOMAIN recovery_segments_ :
         /\ recovery_segments_[s]
         /\ rebuild_skiplits_[FetchID(pmem, s)] # NoList => hist.invoked[s] = 1

\* C17 witness: a worker walks a segment it claimed while another worker,
\* which saw the entry not visited before it took the lock, is about to test
\* it again.
C17_Witness ==
  /\ segment_based_rebuild_
  /\ \E t, u \in Threads :
       /\ worker[t].pc = "walk"
       /\ worker[u].pc = "lock"
       /\ SegSeq[worker[u].it] = worker[t].start
       /\ hist.claimed[worker[t].start] = 1

\* The segment workers are at work or have been joined with Ok.
SegmentWalks == segment_based_rebuild_ /\ phase \in {"index", "link"}

\* The level-1 successor a finished walk gives its last node.
HandedTo(hf) ==
  IF /\ hf.boundary # hf.header
     /\ hf.boundary \in DOMAIN recovery_segments_
     /\ hist.pmem_resolved[hf.boundary].type = "SortedElem"
    THEN hf.boundary
    ELSE 0

\* C18: a segment walk ends at the list header or at the start of another
\* segment and processes no record at or beyond it: no segment start and no
\* header is processed as an interior record, and no record twice.  The
\* last node's level-1 next is the neighbour's start node, or null at a
\* header.  After the join every element of a rebuilt list was processed by
\* exactly one walk.
C18_BoundaryHandoff ==
  SegmentWalks =>
    /\ \A r \in Recs : hist.processed[r] <= 1
    /\ hist.interior \cap DOMAIN recovery_segments_ = {}
    /\ \A r \in hist.interior : hist.pmem_resolved[r].type = "SortedElem"
    /\ \A s \in Recs :
         hist.handoff[s] # NoHandoff =>
           /\ \/ hist.handoff[s].boundary = hist.handoff[s].header
              \/ hist.handoff[s].boundary \in DOMAIN recovery_segments_
           /\ nodes[hist.handoff[s].last].next[1] = HandedTo(hist.handoff[s])
    /\ phase = "link" =>
         \A c \in RebuildIds :
           \A r \in Range(MediaElems(hist.pmem_resolved, HeaderRecordOf(c))) :
             hist.processed[r] = 1

\* C18 witness: the join was Ok, one walk handed its last node over to the
\* start node of another segment, and an interior element was processed.
C18_Witness ==
  /\ segment_based_rebuild_
  /\ phase = "link"
  /\ hist.interior # {}
  /\ \E s \in Recs :
       /\ hist.handoff[s] # NoHandoff
       /\ HandedTo(hist.handoff[s]) # 0
       /\ nodes[hist.handoff[s].last].next[1] = hist.handoff[s].boundary

\* The index rebuild is under way or the link phase is.
IndexRebuild == phase \in {"index", "link"}

\* Element r had an old version when the walks began and has none now.
Severed(r) ==
  /\ hist.pmem_resolved[r].type = "SortedElem"
  /\ hist.pmem_resolved[r].old # kNullPMemOffset
  /\ pmem[r].old = kNullPMemOffset

\* Some node points to the node of r on level 1.
Linked1(r) == \E n \in Recs : nodes[n].next[1] = r

\* The hash index holds the entry of element r.
Indexed(r) ==
  \E e \in hash_table : e.key = Key(pmem, r) /\ e.ptr = r

IndexedIfEnabled(r) ==
  rebuild_skiplits_[FetchID(pmem, r)].index_with_hashtable => Indexed(r)

\* The element whose hash insert made worker t fail.
FailedAt(t) ==
  IF worker[t].cur_record = 0 THEN worker[t].start
  ELSE pmem[worker[t].cur_record].next

\* A failed hash insert leaves the old_version of its element as it was.
FailureLeavesVersion ==
  \A t \in Threads :
    worker[t].s # "Ok" =>
      pmem[FailedAt(t)].old = hist.pmem_resolved[FailedAt(t)].old

\* C19 as stated: an element's old_version is cleared only after its node,
\* if any, has been linked and its hash entry, if enabled, has been inserted
\* successfully; a failed hash insert leaves old_version unchanged.
C19_SeveredAfterLinked ==
  IndexRebuild =>
    /\ \A r \in Recs :
         Severed(r) => (HasNode(r) => Linked1(r)) /\ IndexedIfEnabled(r)
    /\ FailureLeavesVersion

\* C19: as above, except that the node of an element that starts a segment
\* is linked by the walk of the preceding segment, which may end after the
\* start's old_version was cleared.
C19_SeveredAfterIndexed ==
  IndexRebuild =>
    /\ \A r \in Recs :
         Severed(r) =>
           /\ HasNode(r) /\ r \notin DOMAIN recovery_segments_ => Linked1(r)
           /\ IndexedIfEnabled(r)
    /\ FailureLeavesVersion

\* C19 witness: a walk cleared the old_version of an element with a linked
\* node and a hash entry, and then failed at the hash insert of an element
\* that still has its old version.
C19_Witness ==
  /\ phase = "index"
  /\ \E r \in Recs : Severed(r) /\ HasNode(r) /\ Linked1(r) /\ Indexed(r)
  /\ \E t \in Threads :
       /\ worker[t].s # "Ok"
       /\ pmem[FailedAt(t)].type = "SortedElem"
       /\ pmem[FailedAt(t)].old # kNullPMemOffset

\* The towers the splices of a list walk build for the nodes of seq, in this
\* order, with the heights they have in nd.
RECURSIVE SpliceAll(_, _, _, _)
SpliceAll(nd, built, prevs, seq) ==
  IF seq = <<>> THEN built
  ELSE LET v == Head(seq)
           h == nd[v].height
       IN  SpliceAll(nd, SpliceNode(built, prevs, v, h),
                     [l \in 1..kMaxHeight |-> IF l <= h THEN v ELSE prevs[l]],
                     Tail(seq))

ListTowers(nd, header, seq) ==
  SpliceAll(nd, [nd EXCEPT ![header] = NewNode(kMaxHeight)],
            [l \in 1..kMaxHeight |-> header], seq)

\* linkHighDramNodes has run on skiplist c.
LinkedUp(c) ==
  /\ segment_based_rebuild_
  /\ phase \in {"link", "clean", "done"}
  /\ c \in RebuildIds \cap batch

\* C20: after linkHighDramNodes on a skiplist, on every level from 2 to
\* kMaxHeight the chain from the header node visits exactly the level-1
\* nodes at least that high, in level-1 order, and ends with null; the
\* level-1 chain is as it was; the towers are those the splices of the
\* list-based rebuildSkiplistIndex build for the same nodes and heights.
C20_HighLevelLinkage ==
  \A c \in Ids :
    LinkedUp(c) =>
      LET h == HeaderRecordOf(c)
          L1 == LevelNodes(nodes, h, 1)
      IN
      /\ <<h>> \o L1 = hist.level1[c]
      /\ \A l \in 2..kMaxHeight :
           LevelNodes(nodes, h, l) =
             SelectSeq(L1, LAMBDA x : nodes[x].height >= l)
      /\ \A r \in {h} \cup Range(L1) :
           nodes[r] = ListTowers(nodes, h, L1)[r]

\* C20 witness: the linked skiplist has a level-1 chain of two nodes, the
\* first of height 1 and the second higher, so that level 2 skips a node.
C20_Witness ==
  \E c \in Ids :
    /\ LinkedUp(c)
    /\ Len(LevelNodes(nodes, HeaderRecordOf(c), 1)) = 2
    /\ nodes[LevelNodes(nodes, HeaderRecordOf(c), 1)[1]].height = 1
    /\ nodes[LevelNodes(nodes, HeaderRecordOf(c), 1)[2]].height >= 2
    /\ LevelNodes(nodes, HeaderRecordOf(c), 2) =
         <<LevelNodes(nodes, HeaderRecordOf(c), 1)[2]>>

\* No index worker is at work.
WorkersIdle == \A t \in Threads : worker[t].pc = "idle"

\* Every walk of a segment that was begun has ended.
SegmentWalksEnded ==
  \A s \in DOMAIN recovery_segments_ :
    /\ recovery_segments_[s]
    /\ hist.invoked[s] = 1 => hist.handoff[s] # NoHandoff

\* The order of the phases of Rebuild.
PhaseOrder ==
  {<<"intake", "init">>, <<"init", "index">>, <<"init", "clean">>,
   <<"init", "done">>, <<"index", "link">>, <<"index", "clean">>,
   <<"index", "done">>, <<"link", "clean">>, <<"clean", "done">>}

\* C21: an index worker runs only when header resolution is over; in
\* segment-based mode a linkHighDramNodes task runs only when every segment
\* worker has finished; cleanInvalidRecords runs only when the workers of
\* the last phase have finished and no phase failed.  The phases follow each
\* other in this order only.
C21_PhaseBarriers ==
  /\ [](/\ ~WorkersIdle =>
             phase = "index" /\ linked_headers_ = {} /\ init_i = 0
        /\ phase = "init" => WorkersIdle /\ batch = {} /\ ~hist.cleaned
        /\ segment_based_rebuild_ /\ (phase = "link" \/ batch # {}) =>
             WorkersIdle /\ (phase = "link" => SegmentWalksEnded)
        /\ phase = "clean" \/ hist.cleaned =>
             /\ WorkersIdle
             /\ RebuildIds \subseteq batch
             /\ ~FoundExisting /\ ~BadHeader
             /\ ret.s # "Abort"
        /\ hist.cleaned => phase = "done" /\ ret.s = "Ok")
  /\ [][phase' # phase => <<phase, phase'>> \in PhaseOrder]_vars

\* C21 witness: a segment-based rebuild with two segment workers that walked
\* interior elements has passed the link phase and is about to reclaim.
C21_Witness ==
  /\ segment_based_rebuild_
  /\ phase = "clean"
  /\ batch # {}
  /\ hist.interior # {}
  /\ next_tid_ >= NThreads

\* Header resolution is over and the segments are still registered.
SegmentsKnown ==
  /\ segment_based_rebuild_
  /\ phase \in {"index", "link"} \/ (phase = "clean" /\ batch = {})

\* The start record of segment s belongs to an invalid skiplist.
InvalidSegment(s) == FetchID(pmem, s) \in InvalidIds

\* C22: after header resolution the start record of every recovery segment
\* has the id of a rebuild skiplist or of an invalid skiplist; a segment of
\* an invalid skiplist is claimed, but rebuildSegmentIndex is not run on it
\* and its start keeps its old_version and gets no hash entry.
C22_SegmentsHaveSkiplists ==
  SegmentsKnown =>
    \A s \in DOMAIN recovery_segments_ :
      /\ FetchID(pmem, s) \in RebuildIds \cup InvalidIds
      /\ FetchID(pmem, s) \in RebuildIds <=> ~InvalidSegment(s)
      /\ InvalidSegment(s) =>
           /\ hist.invoked[s] = 0
           /\ hist.processed[s] = 0
           /\ hist.handoff[s] = NoHandoff
           /\ pmem[s] = hist.pmem_resolved[s]
           /\ ~\E e \in hash_table : e.ptr = s /\ e.key[1] = "elem"
           /\ phase = "link" => hist.claimed[s] = 1

\* C22 witness: the segment workers were joined after one of them claimed the
\* segment of an element of an invalid skiplist, whose header the intake had
\* accepted, beside a rebuild skiplist.
C22_Witness ==
  /\ segment_based_rebuild_
  /\ phase = "link"
  /\ \E s \in DOMAIN recovery_segments_ :
       /\ InvalidSegment(s)
       /\ pmem[s].type = "SortedElem"
       /\ hist.claimed[s] = 1

\* C23: with fair scheduling Rebuild eventually returns, in both modes and
\* on every input, with every index worker that was started completed and
\* joined: every walk ends at the owning header or at another segment's
\* start, every link walk at a null next.
C23_Termination == <>(phase = "done" /\ WorkersIdle)

\* C23 witness: Rebuild returned Ok from a segment-based rebuild in which
\* both workers ran, elements were walked and every skiplist was linked.
C23_Witness ==
  /\ RebuildOk
  /\ segment_based_rebuild_
  /\ hist.interior # {}
  /\ next_tid_ > NThreads
  /\ ret.skiplists # {}

\* ------------------------------------------------------------------- C24
Registered(name) == hpmap[name].pointer # nullptr

LiveOf(name) == {v \in vhb.live : v.name = name}

\* What a call that returned did, against the entry as it was when the call
\* got its accessor (seen) and as it was when the call returned (left).
CreateReturned(c) ==
  /\ c.result <=> c.seen = nullptr
  /\ c.result =>
       /\ c.vhash # nullptr
       /\ c.left = c.vhash
       /\ c.seen = nullptr
  /\ ~c.result => c.left = c.seen /\ c.vhash = nullptr

DestroyReturned(c) ==
  /\ c.result <=> c.seen # nullptr
  /\ c.result =>
       /\ c.vhash = c.seen
       /\ c.left = nullptr
       /\ [id |-> c.vhash, name |-> c.name] \in vhb.recycled
  /\ ~c.result => c.left = nullptr /\ c.vhash = nullptr

\* A step changes the pointer of a name only as the install of a Create that
\* found the name free or as the erase of a Destroy that found it registered;
\* a VHash is made only by such a Create, recycled only by such a Destroy.
MapChanges ==
  /\ \A name \in Names :
       hpmap'[name].pointer # hpmap[name].pointer =>
         \E t \in Threads :
           /\ call[t].name = name
           /\ \/ /\ call[t].op = "Create" /\ call[t].seen = nullptr
                 /\ hpmap[name].pointer = nullptr
                 /\ hpmap'[name].pointer = call[t].vhash
                 /\ call'[t].pc = "returned" /\ call'[t].result
              \/ /\ call[t].op = "Destroy" /\ call[t].seen # nullptr
                 /\ hpmap[name].pointer = call[t].seen
                 /\ hpmap'[name].pointer = nullptr
  /\ \A t \in Threads :
       call'[t].pc = "returned" /\ call[t].pc # "returned"
         /\ call'[t].op # "Get" /\ ~call'[t].result =>
           hpmap'[call'[t].name].pointer = hpmap[call'[t].name].pointer
             /\ vhb' = vhb

\* What holds of the group and of the calls that returned, in every state.
OneVHashPerName ==
  /\ \A name \in Names :
       /\ Cardinality(LiveOf(name)) <= 1
       /\ Registered(name) =>
            LiveOf(name) = {[id |-> hpmap[name].pointer, name |-> name]}
  /\ vhb.live \cap vhb.recycled = {}
  /\ \A t \in Threads :
       call[t].pc = "returned" =>
         /\ call[t].op = "Create" => CreateReturned(call[t])
         /\ call[t].op = "Destroy" => DestroyReturned(call[t])
  /\ \A t, u \in Threads :
       (/\ t # u
        /\ call[t].pc = "returned" /\ call[u].pc = "returned"
        /\ call[t].op = "Create" /\ call[u].op = "Create"
        /\ call[t].name = call[u].name
        /\ call[t].epoch = call[u].epoch)
       => /\ ~(call[t].result /\ call[u].result)
          /\ call[t].seen = nullptr => call[t].result # call[u].result

\* C24: under any interleaving a name has at most one live VHash, the one
\* registered under it if any; Create returns true and installs a new VHash
\* iff the name was free, Destroy returns true, erases and recycles iff it
\* was registered, a call returning false leaves the map as it was, and of
\* two Creates of one name with no Destroy of the name between them at most
\* one returns true, exactly one if the name was free before them.
C24_OneVHashPerName == []OneVHashPerName /\ [][MapChanges]_vars

\* C24 witness: two Creates of one name ran at once on a free name, one
\* waiting for the accessor while the other held it; one returned true and
\* its VHash is the one registered.
C24_Witness ==
  \E t, u \in Threads :
    /\ t # u
    /\ call[t].pc = "returned" /\ call[u].pc = "returned"
    /\ call[t].op = "Create" /\ call[u].op = "Create"
    /\ call[t].name = call[u].name
    /\ call[t].epoch = call[u].epoch
    /\ call[t].seen = nullptr
    /\ call[u].contended
    /\ call[t].result /\ ~call[u].result
    /\ hpmap[call[t].name].pointer = call[t].vhash

====
